---- MODULE Spec2Model ----
(***************************************************************************)
(* The card-matching state machine of the Word Definition Memory Game     *)
(* (src/src/definition_match/app.py): start_game, handle_card_click,       *)
(* verify_game_state and the Continue button, acting on st.session_state.  *)
(*                                                                         *)
(* Conventions.                                                            *)
(*  - st.session_state is a function from attribute names to values; an   *)
(*    attribute that was never assigned is not in its DOMAIN (hasattr).    *)
(*  - A Python str is the sequence of its pieces: every digit, "-" and     *)
(*    ":" is a piece of its own, any other run of text is one piece.       *)
(*    f-strings concatenate, split(":", 1) cuts at the first ":" piece,    *)
(*    int() reads the digit pieces.                                        *)
(*  - A Python list is a sequence; Python's 0-based index i is position    *)
(*    i + 1, and a negative index counts from the end.                     *)
(*  - None (start_time before any game) is 0; time.time() is >= 1.         *)
(*  - A handler returns [st |-> the session state it leaves,               *)
(*    exc |-> "None" or the name of the exception it raised].              *)
(***************************************************************************)
EXTENDS Integers, Sequences, FiniteSets, TLC

\* session_state is st.session_state.  call is the record of the last call
\* under examination in the specifications that examine calls one by one
\* (its name, its arguments, what it gave); elsewhere it stays NoCall.
VARIABLES session_state, call

vars == <<session_state, call>>

NoCall == [fn |-> "none"]

\* ------------------------------------------------------------- bounds
\* Pairs of a game on a category whose items are given as inputs.
MaxWords == 2
\* Outcomes of random.sample that are explored (sequences of its draws).
MaxSamples == 2
\* Outcomes of random.shuffle that are explored (sequences of its draws).
MaxShuffles == 4
\* Outcomes of random.shuffle that are explored in the timed revision.
MaxTimedShuffles == 1
\* attempts is capped: a click that would raise it above is not taken.
MaxAttempts == 4
MaxCount == 3
MaxSelected == 3
MaxRows == 2
\* Seconds that pass in the timed revision, from the reading 1 of
\* time.time() on.
MaxTime == 3

\* The readings of time.time() that are explored.
Times == {1}
\* The categories and difficulties start_game is called with.
CategoryInputs == {"Science"}
DifficultyInputs == {"Easy"}

None == 0

Min(a, b) == IF a < b THEN a ELSE b

\* ------------------------------------------------------- Python values
Digit(d) ==
    CASE d = 0 -> "0" [] d = 1 -> "1" [] d = 2 -> "2" [] d = 3 -> "3"
      [] d = 4 -> "4" [] d = 5 -> "5" [] d = 6 -> "6" [] d = 7 -> "7"
      [] d = 8 -> "8" [] d = 9 -> "9"

DigitValue(c) ==
    CASE c = "0" -> 0 [] c = "1" -> 1 [] c = "2" -> 2 [] c = "3" -> 3
      [] c = "4" -> 4 [] c = "5" -> 5 [] c = "6" -> 6 [] c = "7" -> 7
      [] c = "8" -> 8 [] c = "9" -> 9

RECURSIVE NatToStr(_)
NatToStr(n) ==
    IF n < 10 THEN <<Digit(n)>> ELSE NatToStr(n \div 10) \o <<Digit(n % 10)>>

\* str(i), as the f-string formats an int.
IntToStr(i) == IF i < 0 THEN <<"-">> \o NatToStr(-i) ELSE NatToStr(i)

RECURSIVE StrToNat(_)
StrToNat(s) ==
    IF s = <<>> THEN 0
    ELSE 10 * StrToNat(SubSeq(s, 1, Len(s) - 1)) + DigitValue(s[Len(s)])

\* int(s) for the strings IntToStr produces.
StrToInt(s) == IF s[1] = "-" THEN -StrToNat(Tail(s)) ELSE StrToNat(s)

\* s.split(":", 1) for a string that holds a ":": <<before, after>> the first.
SplitColon(s) ==
    LET p == CHOOSE k \in 1..Len(s) :
                 s[k] = ":" /\ \A j \in 1..(k - 1) : s[j] # ":"
    IN <<SubSeq(s, 1, p - 1), SubSeq(s, p + 1, Len(s))>>

\* x in lst
InList(x, lst) == \E k \in 1..Len(lst) : lst[k] = x

\* lst[i] raises IndexError unless -len <= i < len.
IndexOK(lst, i) == -Len(lst) <= i /\ i < Len(lst)
Item(lst, i) == IF i >= 0 THEN lst[i + 1] ELSE lst[Len(lst) + i + 1]

\* s before st.session_state.k was ever set: hasattr(st.session_state, k)
\* is false.
Unset(s, k) == [x \in DOMAIN s \ {k} |-> s[x]]

\* st.session_state.k = v
Assign(s, k, v) == [x \in DOMAIN s \cup {k} |-> IF x = k THEN v ELSE s[x]]

Return(s) == [st |-> s, exc |-> "None"]
Raise(s, e) == [st |-> s, exc |-> e]

\* ------------------------------------------------------ category table
WORD_SETS ==
    [Technology |-> <<
        <<<<"Algorithm">>, <<"A step-by-step procedure for solving a problem or accomplishing a task">>>>,
        <<<<"Bandwidth">>, <<"The maximum rate of data transfer across a given path">>>>,
        <<<<"Cache">>, <<"A temporary storage area where frequently accessed data can be stored for rapid access">>>>,
        <<<<"Database">>, <<"An organized collection of structured information or data">>>>,
        <<<<"Encryption">>, <<"The process of converting information into a code to prevent unauthorized access">>>>,
        <<<<"Firewall">>, <<"A network security system that monitors and controls incoming and outgoing network traffic">>>>,
        <<<<"GUI">>, <<"Graphical User Interface - a visual way of interacting with a computer using icons and graphics">>>>,
        <<<<"HTTP">>, <<"Hypertext Transfer Protocol - the foundation of data communication for the World Wide Web">>>> >>,
     Science |-> <<
        <<<<"Atom">>, <<"The basic unit of matter consisting of a nucleus and electrons">>>>,
        <<<<"Biology">>, <<"The study of living organisms and their interactions with the environment">>>>,
        <<<<"Chemistry">>, <<"The study of matter, its properties, and the changes it undergoes">>>>,
        <<<<"DNA">>, <<"A molecule that carries genetic instructions for development and functioning of organisms">>>>,
        <<<<"Ecosystem">>, <<"A community of living organisms together with the nonliving components of their environment">>>>,
        <<<<"Fusion">>, <<"The process of combining atomic nuclei to form heavier nuclei, releasing energy">>>>,
        <<<<"Gravity">>, <<"The force that attracts objects toward one another, especially the attraction of earth's mass">>>>,
        <<<<"Hypothesis">>, <<"A proposed explanation for a phenomenon that can be tested through further investigation">>>> >>,
     Literature |-> <<
        <<<<"Allegory">>, <<"A story with hidden meaning, typically with moral or political significance">>>>,
        <<<<"Metaphor">>, <<"A figure of speech making an implicit comparison without using 'like' or 'as'">>>>,
        <<<<"Protagonist">>, <<"The main character in a story, often in conflict with an antagonist">>>>,
        <<<<"Sonnet">>, <<"A 14-line poem with a specific rhyme scheme and structure">>>>,
        <<<<"Irony">>, <<"The expression of meaning using language that normally signifies the opposite">>>>,
        <<<<"Narrative">>, <<"A spoken or written account of connected events; a story">>>>,
        <<<<"Imagery">>, <<"Visually descriptive or figurative language in a literary work">>>>,
        <<<<"Foreshadowing">>, <<"A warning or indication of a future event in the narrative">>>> >>]

DIFFICULTIES ==
    [Easy |-> [pairs |-> 4], Medium |-> [pairs |-> 6], Hard |-> [pairs |-> 8]]

\* pair_count as it would be if a name out of the table got the last entry.
pair_count_defaulting_to_hard(difficulty) ==
    IF difficulty \in DOMAIN DIFFICULTIES
    THEN DIFFICULTIES[difficulty].pairs
    ELSE DIFFICULTIES["Hard"].pairs

\* streamlit_template/app.py, lines 95-96: pair_counts.get(difficulty, 4)
template_pair_counts == [Easy |-> 4, Medium |-> 6, Hard |-> 8]

template_pair_count(difficulty) ==
    IF difficulty \in DOMAIN template_pair_counts
    THEN template_pair_counts[difficulty]
    ELSE 4

\* DIFFICULTIES.get(difficulty, DIFFICULTIES["Easy"])["pairs"]
pair_count(difficulty) ==
    IF difficulty \in DOMAIN DIFFICULTIES
    THEN DIFFICULTIES[difficulty].pairs
    ELSE DIFFICULTIES["Easy"].pairs

\* ---------------------------------------------------------- randomness
\* random.sample(population, k) for 0 <= k <= len(population), on the pool
\* it copies from a population this small: for i in range(k) it draws
\* j = randbelow(n - i), takes pool[j] and moves pool[n - i - 1] to
\* position j.  d holds the draws: j is d % (n - i), the rest of d goes on.
RECURSIVE SampleFrom(_, _, _, _, _)
SampleFrom(pool, i, k, d, result) ==
    IF i >= k THEN result
    ELSE LET n == Len(pool)
             j == d % (n - i)
         IN SampleFrom([pool EXCEPT ![j + 1] = pool[n - i]], i + 1, k,
                       d \div (n - i), Append(result, pool[j + 1]))

random_sample(population, k, d) == SampleFrom(population, 0, k, d, <<>>)

\* The number of samples of k out of n elements, counted up to cap.
RECURSIVE SampleCount(_, _, _)
SampleCount(n, k, cap) ==
    IF k <= 0 THEN 1
    ELSE IF n <= 0 THEN 0
    ELSE Min(n * SampleCount(n - 1, k - 1, cap), cap)

\* The draws of one sample that are explored; a sample that fails draws
\* nothing.
SampleDraws(n, k) ==
    IF k < 0 \/ k > n THEN {0}
    ELSE 0..(SampleCount(n, k, MaxSamples) - 1)

\* Swap as it would be if it copied one element over the other.
Swap_overwriting(x, a, b) ==
    [j \in 1..Len(x) |-> IF j = a THEN x[b] ELSE x[j]]

\* x with the elements at positions a and b exchanged.
Swap(x, a, b) ==
    [j \in 1..Len(x) |-> IF j = a THEN x[b] ELSE IF j = b THEN x[a] ELSE x[j]]

RECURSIVE Factorial(_)
Factorial(n) == IF n <= 1 THEN 1 ELSE n * Factorial(n - 1)

\* random.shuffle(x), Fisher-Yates from the last position down: at
\* 0-based position i it exchanges x[i] with x[j], j = randbelow(i + 1).
\* r holds the draws: j is r % (i + 1), the rest of r goes on.
RECURSIVE ShuffleFrom(_, _, _)
ShuffleFrom(x, i, r) ==
    IF i < 1 THEN x
    ELSE ShuffleFrom(Swap(x, i + 1, (r % (i + 1)) + 1), i - 1, r \div (i + 1))

random_shuffle(x, r) == ShuffleFrom(x, Len(x) - 1, r)

\* The draws of one shuffle that are explored: the first MaxShuffles of
\* the n! there are.
ShuffleDraws(n) == 0..(SampleCount(n, n, MaxShuffles) - 1)

\* The draws of every shuffle of n elements.
AllShuffleDraws(n) == 0..(Factorial(n) - 1)

\* ------------------------------------------------------------ the game
\* get_word_pairs, line 83: list(WORD_SETS[category].items()).
all_pairs(category) == WORD_SETS[category]

\* random.sample(population, k) with its ValueError for a k that is
\* negative or larger than the population.
sample_or_raise(population, k, d) ==
    IF k < 0 \/ k > Len(population)
    THEN [value |-> <<>>, exc |-> "ValueError"]
    ELSE [value |-> random_sample(population, k, d), exc |-> "None"]

\* get_word_pairs as it would be if it passed count to random.sample as it
\* came.
get_word_pairs_unclamped(category, count, d) ==
    sample_or_raise(all_pairs(category), count, d)

\* get_word_pairs, lines 83-84, with the draws d of random.sample.
get_word_pairs(category, count, d) ==
    sample_or_raise(all_pairs(category),
                    Min(count, Len(all_pairs(category))), d)

\* The cards of start_game before the shuffle: a word card and a
\* definition card per pair, as (kind, text, pair text).
RECURSIVE build_cards(_)
build_cards(pairs) ==
    IF pairs = <<>> THEN <<>>
    ELSE <<<<"word", pairs[1][1], pairs[1][2]>>,
           <<"definition", pairs[1][2], pairs[1][1]>>>> \o build_cards(Tail(pairs))

\* start_game as it would be if it left the attempts counter alone.
start_game_keeping_attempts(s, category, difficulty, pairs, r, t) ==
    LET all_cards == random_shuffle(build_cards(pairs), r)
        s1 == Assign(s, "all_cards", all_cards)
        s2 == Assign(s1, "game_active", TRUE)
        s3 == Assign(s2, "matched_pairs", <<>>)
        s4 == Assign(s3, "selected_cards", <<>>)
        s6 == Assign(s4, "start_time", t)
    IN Assign(s6, "difficulty", difficulty)

\* start_game with the outcomes of random.sample (pairs), of random.shuffle
\* (its draws r) and of time.time() (t).
start_game(s, category, difficulty, pairs, r, t) ==
    LET all_cards == random_shuffle(build_cards(pairs), r)
        s1 == Assign(s, "all_cards", all_cards)
        s2 == Assign(s1, "game_active", TRUE)
        s3 == Assign(s2, "matched_pairs", <<>>)
        s4 == Assign(s3, "selected_cards", <<>>)
        s5 == Assign(s4, "attempts", 0)
        s6 == Assign(s5, "start_time", t)
    IN Assign(s6, "difficulty", difficulty)

\* card_key as it would be if it numbered the cards from one.
card_key_one_based(card_index, card_text) ==
    IntToStr(card_index + 1) \o <<":">> \o card_text

\* f"{card_index}:{card_text}"
card_key(card_index, card_text) == IntToStr(card_index) \o <<":">> \o card_text

\* locked as it would be without the check of line 135.
never_locked(s) == FALSE

\* handle_card_click, line 135: a non-match is on show, clicks are ignored.
locked(s) == s["showing_non_match"]

\* already_taken as it would be without the check of line 144.
never_taken(s, key) == FALSE

\* already_taken as it would be if line 144 looked only at the selection.
already_taken_selected_only(s, key) == InList(key, s["selected_cards"])

\* already_taken as it would be if line 144 looked only at the matches.
already_taken_matched_only(s, key) == InList(key, s["matched_pairs"])

\* handle_card_click, line 144: the card is already matched or selected.
already_taken(s, key) ==
    InList(key, s["matched_pairs"]) \/ InList(key, s["selected_cards"])

\* is_match as it would be if it compared only the pair text of the first
\* card with the text of the second.
is_match_one_way(card1, card2) ==
    (card1[1] # card2[1]) /\ (card1[3] = card2[2])

\* is_match as it would be if a word card matched any definition card.
is_match_kinds_only(card1, card2) ==
    card1[1] # card2[1]

\* handle_card_click, line 162, on two cards (kind, text, pair text).
is_match(card1, card2) ==
    (card1[1] # card2[1]) /\ (card1[3] = card2[2]) /\ (card2[3] = card1[2])

\* check_match as it would be if a match left the selection in place.
check_match_keeping_selection(s) ==
    LET s1 == [s EXCEPT !["attempts"] = @ + 1]
        idx1 == SplitColon(s1["selected_cards"][1])[1]
        idx2 == SplitColon(s1["selected_cards"][2])[1]
        card1 == Item(s1["all_cards"], StrToInt(idx1))
        card2 == Item(s1["all_cards"], StrToInt(idx2))
    IN IF is_match(card1, card2)
       THEN [s1 EXCEPT !["matched_pairs"] = @ \o s1["selected_cards"]]
       ELSE Assign(s1, "showing_non_match", TRUE)

\* check_match as it would be if a non-match did not raise the flag.
check_match_without_flag(s) ==
    LET s1 == [s EXCEPT !["attempts"] = @ + 1]
        idx1 == SplitColon(s1["selected_cards"][1])[1]
        idx2 == SplitColon(s1["selected_cards"][2])[1]
        card1 == Item(s1["all_cards"], StrToInt(idx1))
        card2 == Item(s1["all_cards"], StrToInt(idx2))
    IN IF is_match(card1, card2)
       THEN [s1 EXCEPT !["matched_pairs"] = @ \o s1["selected_cards"],
                       !["selected_cards"] = <<>>]
       ELSE s1

\* check_match as it would be if a match recorded the first card only.
check_match_one_card(s) ==
    LET s1 == [s EXCEPT !["attempts"] = @ + 1]
        idx1 == SplitColon(s1["selected_cards"][1])[1]
        idx2 == SplitColon(s1["selected_cards"][2])[1]
        card1 == Item(s1["all_cards"], StrToInt(idx1))
        card2 == Item(s1["all_cards"], StrToInt(idx2))
    IN IF is_match(card1, card2)
       THEN [s1 EXCEPT !["matched_pairs"] = Append(@, s1["selected_cards"][1]),
                       !["selected_cards"] = <<>>]
       ELSE Assign(s1, "showing_non_match", TRUE)

\* check_match as it would be without the count of line 152.
check_match_without_count(s) ==
    LET idx1 == SplitColon(s["selected_cards"][1])[1]
        idx2 == SplitColon(s["selected_cards"][2])[1]
        card1 == Item(s["all_cards"], StrToInt(idx1))
        card2 == Item(s["all_cards"], StrToInt(idx2))
    IN IF is_match(card1, card2)
       THEN [s EXCEPT !["matched_pairs"] = @ \o s["selected_cards"],
                      !["selected_cards"] = <<>>]
       ELSE Assign(s, "showing_non_match", TRUE)

\* check_match as it would be if it raised the flag after a match too.
check_match_raising_flag(s) ==
    LET s1 == [s EXCEPT !["attempts"] = @ + 1]
        idx1 == SplitColon(s1["selected_cards"][1])[1]
        idx2 == SplitColon(s1["selected_cards"][2])[1]
        card1 == Item(s1["all_cards"], StrToInt(idx1))
        card2 == Item(s1["all_cards"], StrToInt(idx2))
    IN IF is_match(card1, card2)
       THEN Assign([s1 EXCEPT !["matched_pairs"] = @ \o s1["selected_cards"],
                              !["selected_cards"] = <<>>],
                   "showing_non_match", TRUE)
       ELSE Assign(s1, "showing_non_match", TRUE)

\* check_match as it would be if a match replaced the list of matches.
check_match_replacing_matches(s) ==
    LET s1 == [s EXCEPT !["attempts"] = @ + 1]
        idx1 == SplitColon(s1["selected_cards"][1])[1]
        idx2 == SplitColon(s1["selected_cards"][2])[1]
        card1 == Item(s1["all_cards"], StrToInt(idx1))
        card2 == Item(s1["all_cards"], StrToInt(idx2))
    IN IF is_match(card1, card2)
       THEN [s1 EXCEPT !["matched_pairs"] = s1["selected_cards"],
                       !["selected_cards"] = <<>>]
       ELSE Assign(s1, "showing_non_match", TRUE)

\* check_match as it would be if line 152 counted only the attempts that
\* did not match.
check_match_counting_misses(s) ==
    LET idx1 == SplitColon(s["selected_cards"][1])[1]
        idx2 == SplitColon(s["selected_cards"][2])[1]
        card1 == Item(s["all_cards"], StrToInt(idx1))
        card2 == Item(s["all_cards"], StrToInt(idx2))
    IN IF is_match(card1, card2)
       THEN [s EXCEPT !["matched_pairs"] = @ \o s["selected_cards"],
                      !["selected_cards"] = <<>>]
       ELSE Assign([s EXCEPT !["attempts"] = @ + 1],
                   "showing_non_match", TRUE)

\* handle_card_click, lines 151-173: two cards are selected.
check_match(s) ==
    LET s1 == [s EXCEPT !["attempts"] = @ + 1]
        idx1 == SplitColon(s1["selected_cards"][1])[1]
        idx2 == SplitColon(s1["selected_cards"][2])[1]
        card1 == Item(s1["all_cards"], StrToInt(idx1))
        card2 == Item(s1["all_cards"], StrToInt(idx2))
    IN IF is_match(card1, card2)
       THEN [s1 EXCEPT !["matched_pairs"] = @ \o s1["selected_cards"],
                       !["selected_cards"] = <<>>]
       ELSE Assign(s1, "showing_non_match", TRUE)

handle_card_click(s, card_index) ==
    IF "showing_non_match" \notin DOMAIN s THEN Raise(s, "AttributeError")
    ELSE IF locked(s) THEN Return(s)
    ELSE IF "all_cards" \notin DOMAIN s THEN Raise(s, "AttributeError")
    ELSE IF ~IndexOK(s["all_cards"], card_index) THEN Raise(s, "IndexError")
    ELSE
      LET card_text == Item(s["all_cards"], card_index)[2]
          key == card_key(card_index, card_text)
      IN IF already_taken(s, key)
         THEN Return(s)
         ELSE LET s1 == [s EXCEPT !["selected_cards"] = Append(@, key)]
              IN IF Len(s1["selected_cards"]) = 2
                 THEN Return(check_match(s1))
                 ELSE Return(s1)

\* verify_game_state as it would be with the check of line 181 only.
verify_game_state_first_check_only(s) ==
    IF "selected_cards" \in DOMAIN s /\ Len(s["selected_cards"]) > 2
    THEN Assign(Assign(s, "selected_cards", <<>>), "showing_non_match", FALSE)
    ELSE s

verify_game_state(s) ==
    LET s1 == IF "selected_cards" \in DOMAIN s /\ Len(s["selected_cards"]) > 2
              THEN Assign(Assign(s, "selected_cards", <<>>),
                          "showing_non_match", FALSE)
              ELSE s
    IN IF /\ "showing_non_match" \in DOMAIN s1
          /\ "selected_cards" \in DOMAIN s1
          /\ s1["showing_non_match"]
          /\ Len(s1["selected_cards"]) # 2
       THEN Assign(s1, "showing_non_match", FALSE)
       ELSE s1

\* game_completed as it would be if the test were passed one pair early.
game_completed_one_early(s) ==
    (Len(s["matched_pairs"]) \div 2) + 1 >= (Len(s["all_cards"]) \div 2)

\* main, lines 409-413: the completion screen is shown instead of the board.
game_completed(s) ==
    (Len(s["matched_pairs"]) \div 2) >= (Len(s["all_cards"]) \div 2)

\* efficiency as it would be with the two operands of the division
\* exchanged.
efficiency_inverted(total_pairs, attempts) ==
    IF total_pairs = 0
    THEN [value |-> None, exc |-> "ZeroDivisionError"]
    ELSE [value |-> <<attempts * 100, total_pairs>>, exc |-> "None"]

\* main, line 421: (total_pairs / st.session_state.attempts) * 100.  The
\* value is the fraction <<numerator, denominator>>; the float of the code
\* compares with 0 and with 100 as this fraction does.
efficiency(total_pairs, attempts) ==
    IF attempts = 0
    THEN [value |-> None, exc |-> "ZeroDivisionError"]
    ELSE [value |-> <<total_pairs * 100, attempts>>, exc |-> "None"]

\* ------------------------------------------------------ calculate_score
\* utils.py, calculate_score.  The three parts of the score are kept as
\* whole numbers of the unit 1/(10 * total_pairs), in which each of them is
\* exact: (pairs_found / total_pairs) * 50 is 500 * pairs_found units, and
\* so on.  max(a, b) of the code:
Max(a, b) == IF a > b THEN a ELSE b

score_unit(total_pairs) == 10 * total_pairs

\* line 86: completion_score = (pairs_found / total_pairs) * 50
completion_score(pairs_found, total_pairs) == 500 * pairs_found

\* lines 89-93: efficiency = max(0, 1 - (attempts - min_attempts) /
\* (max_attempts - min_attempts)), efficiency_score = efficiency * 30, with
\* min_attempts = total_pairs and max_attempts = total_pairs * 3.
efficiency_score(total_pairs, attempts) ==
    150 * Max(0, 3 * total_pairs - attempts)

\* lines 97-101: time_factor = max(0, 1 - (time_seconds - target_time) /
\* (max_time - target_time)), time_score = time_factor * 20, with
\* target_time = total_pairs * 5 and max_time = total_pairs * 15.
time_score(total_pairs, time_seconds) ==
    20 * Max(0, 15 * total_pairs - time_seconds)

\* The parts are floats.  A division whose quotient is a whole number is
\* exact in floating point, and so is everything computed from it here;
\* any other quotient may have been rounded.
float_exact(pairs_found, total_pairs, attempts, time_seconds) ==
    /\ pairs_found % total_pairs = 0
    /\ (attempts - total_pairs) % (2 * total_pairs) = 0
    /\ (time_seconds - 5 * total_pairs) % (10 * total_pairs) = 0

\* line 104: int(completion_score + efficiency_score + time_score).  The
\* sum is not negative, so int() is the floor.  Rounding moves the float
\* sum by far less than one unit, so it changes the floor only where the
\* exact sum is a whole number and the float sum fell just below it: both
\* outcomes are kept there.
total_scores(pairs_found, total_pairs, attempts, time_seconds) ==
    LET sum == completion_score(pairs_found, total_pairs)
               + efficiency_score(total_pairs, attempts)
               + time_score(total_pairs, time_seconds)
        q == sum \div score_unit(total_pairs)
    IN IF sum % score_unit(total_pairs) = 0
          /\ ~float_exact(pairs_found, total_pairs, attempts, time_seconds)
       THEN {q - 1, q}
       ELSE {q}

\* calculate_score as it would be without the clamp of line 107.
calculate_score_unclamped(pairs_found, total_pairs, attempts, time_seconds) ==
    IF total_pairs = 0
    THEN [values |-> {}, exc |-> "ZeroDivisionError"]
    ELSE [values |-> total_scores(pairs_found, total_pairs, attempts,
                                  time_seconds),
          exc |-> "None"]

\* lines 69-107.  values is the set of the integers the call can return.
calculate_score(pairs_found, total_pairs, attempts, time_seconds) ==
    IF total_pairs = 0
    THEN [values |-> {}, exc |-> "ZeroDivisionError"]
    ELSE [values |-> {Max(0, Min(100, total_score)) :
                        total_score \in total_scores(pairs_found, total_pairs,
                                                     attempts, time_seconds)},
          exc |-> "None"]

\* main, line 572 inside the branches of lines 323, 404 and 456: the
\* Continue button is on the page.
continue_shown(s) ==
    /\ s["game_active"]
    /\ ~game_completed(s)
    /\ s["showing_non_match"]
    /\ Len(s["selected_cards"]) = 2

\* card_enabled as it would be if line 553 did not disable the cards
\* while a non-match is on show.
card_enabled_ignoring_flag(s, i) ==
    /\ "all_cards" \in DOMAIN s
    /\ s["game_active"]
    /\ ~game_completed(s)
    /\ IndexOK(s["all_cards"], i) /\ i >= 0
    /\ ~already_taken(s, card_key(i, Item(s["all_cards"], i)[2]))

\* main, lines 494-569: the page shows an enabled button for the card at
\* index i.  Matched cards are plain HTML (line 510), selected cards are
\* disabled buttons (lines 527-549) and the other cards are disabled
\* while a non-match is on show (line 553).
card_enabled(s, i) ==
    /\ "all_cards" \in DOMAIN s
    /\ s["game_active"]
    /\ ~game_completed(s)
    /\ IndexOK(s["all_cards"], i) /\ i >= 0
    /\ ~already_taken(s, card_key(i, Item(s["all_cards"], i)[2]))
    /\ ~s["showing_non_match"]

\* main, lines 413 and 446: the Play Again button is on the page.
play_again_shown(s) ==
    /\ "all_cards" \in DOMAIN s
    /\ s["game_active"]
    /\ game_completed(s)

\* continue_button as it would be if it emptied the selection only.
continue_button_keeping_flag(s) ==
    IF continue_shown(s) THEN Assign(s, "selected_cards", <<>>) ELSE s

\* main, lines 582-584: what a click on Continue does; with no button on
\* the page there is nothing to click.
continue_button(s) ==
    IF continue_shown(s)
    THEN Assign(Assign(s, "selected_cards", <<>>), "showing_non_match", FALSE)
    ELSE s

\* ------------------------------------------- the timed revision
\* streamlit_template/app.py shows a non-match for a time instead of
\* waiting for Continue.  Times are whole seconds.
TimerDelay == 2

\* Lines 17-28 of streamlit_template/app.py.
template_initial_session_state ==
    [game_active |-> FALSE,
     selected_cards |-> <<>>,
     matched_pairs |-> <<>>,
     attempts |-> 0,
     start_time |-> None,
     difficulty |-> "Easy"]

\* start_game, lines 86-117: the statements of start_game above.
template_start_game(s, category, difficulty, pairs, r, t) ==
    start_game(s, category, difficulty, pairs, r, t)

\* reset_game, lines 78-84.
template_reset_game(s) ==
    LET s1 == Assign(s, "game_active", FALSE)
        s2 == Assign(s1, "selected_cards", <<>>)
        s3 == Assign(s2, "matched_pairs", <<>>)
        s4 == Assign(s3, "attempts", 0)
    IN Assign(s4, "start_time", None)

\* handle_card_click, lines 136-163: two cards are selected; now is
\* time.time().
template_check_match(s, now) ==
    LET s1 == [s EXCEPT !["attempts"] = @ + 1]
        idx1 == SplitColon(s1["selected_cards"][1])[1]
        idx2 == SplitColon(s1["selected_cards"][2])[1]
        card1 == Item(s1["all_cards"], StrToInt(idx1))
        card2 == Item(s1["all_cards"], StrToInt(idx2))
    IN IF is_match(card1, card2)
       THEN [s1 EXCEPT !["matched_pairs"] = @ \o s1["selected_cards"],
                       !["selected_cards"] = <<>>]
       ELSE IF "non_match_time" \notin DOMAIN s1
       THEN Assign(s1, "non_match_time", now)
       ELSE s1

\* handle_card_click, lines 119-163.
template_handle_card_click(s, card_index, now) ==
    IF "all_cards" \notin DOMAIN s THEN Raise(s, "AttributeError")
    ELSE IF ~IndexOK(s["all_cards"], card_index) THEN Raise(s, "IndexError")
    ELSE
      LET card_text == Item(s["all_cards"], card_index)[2]
          key == card_key(card_index, card_text)
      IN IF already_taken(s, key)
         THEN Return(s)
         ELSE LET s1 == [s EXCEPT !["selected_cards"] = Append(@, key)]
              IN IF Len(s1["selected_cards"]) = 2
                 THEN Return(template_check_match(s1, now))
                 ELSE Return(s1)

\* main, lines 221-230: the selection is cleared when the time of the
\* non-match is more than two seconds back; now is time.time().
clear_non_match(s, now) ==
    IF /\ "non_match_time" \in DOMAIN s
       /\ s["selected_cards"] # <<>>
       /\ now - s["non_match_time"] > TimerDelay
    THEN Unset(Assign(s, "selected_cards", <<>>), "non_match_time")
    ELSE s

\* main, lines 313-331: the page shows an enabled button for the card at
\* index i.
template_card_enabled(s, i) ==
    /\ "all_cards" \in DOMAIN s
    /\ s["game_active"]
    /\ ~game_completed(s)
    /\ IndexOK(s["all_cards"], i) /\ i >= 0
    /\ ~already_taken(s, card_key(i, Item(s["all_cards"], i)[2]))

\* ------------------------------------------------------- uploaded words
\* A data frame read by pd.read_csv is its set of column names and its
\* list of rows, a row giving a cell for each column.  Cells are strings
\* in pieces, as the texts of WORD_SETS; the keys of the category table
\* are whole strings.
required_cols == <<"word", "definition">>

\* The whole string of a string in pieces.
RECURSIVE Text(_)
Text(s) == IF s = <<>> THEN "" ELSE s[1] \o Text(Tail(s))

\* custom_key as it would be if the category were stored under its own
\* name.
custom_key_bare(category_name) == Text(category_name)

\* f"Custom: {category_name}"
custom_key(category_name) == "Custom: " \o Text(category_name)

\* missing_cols as it would be if only the word column were required.
missing_cols_word_only(df) ==
    SelectSeq(<<"word">>, LAMBDA col : col \notin df.columns)

\* [col for col in required_cols if col not in df.columns]
missing_cols(df) ==
    SelectSeq(required_cols, LAMBDA col : col \notin df.columns)

\* d[word] = definition on a dict kept as the list of its items: the value
\* of a key already there is replaced in place, a new key goes last.
DictSet(d, word, definition) ==
    IF \E k \in 1..Len(d) : d[k][1] = word
    THEN [k \in 1..Len(d) |->
              IF d[k][1] = word THEN <<word, definition>> ELSE d[k]]
    ELSE Append(d, <<word, definition>>)

\* {row['word']: row['definition'] for _, row in rows.iterrows()}
RECURSIVE DictFrom(_, _)
DictFrom(d, rows) ==
    IF rows = <<>> THEN d
    ELSE DictFrom(DictSet(d, rows[1]["word"], rows[1]["definition"]),
                  Tail(rows))

word_dict(rows) == DictFrom(<<>>, rows)

\* row['word'] or row['definition'] raises KeyError on a row of a frame
\* without that column; with no row nothing is read.
RowKeyError(df) ==
    /\ df.rows # <<>>
    /\ ~({"word", "definition"} \subseteq df.columns)

\* The keys of WORD_SETS in the order of line 39 on.
WORD_SETS_keys == <<"Technology", "Science", "Literature">>

\* The category names the uploaded files hold, in the order in which
\* df.groupby('category') of line 393 yields its groups (sorted).
CategoryNames == <<<<"Physics">>, <<"Science">>>>

\* The keys of a dict after the keys of add have been assigned to in their
\* order: a new key goes to the end, a key it holds keeps its place.
RECURSIVE insert_keys(_, _)
insert_keys(keys, add) ==
    IF add = <<>> THEN keys
    ELSE insert_keys(IF InList(Head(add), keys) THEN keys
                     ELSE Append(keys, Head(add)),
                     Tail(add))

\* WORD_SETS.keys() after lines 379-403 have run on the frame df, on a
\* table that held keys before.
upload_keys(keys, df) ==
    IF missing_cols(df) # <<>> \/ RowKeyError(df) THEN keys
    ELSE IF "category" \in df.columns
    THEN LET names == {df.rows[k]["category"] : k \in 1..Len(df.rows)}
             groups == SelectSeq(CategoryNames, LAMBDA n : n \in names)
         IN insert_keys(keys, [k \in 1..Len(groups) |-> custom_key(groups[k])])
    ELSE insert_keys(keys, <<"Custom Words">>)

\* main, lines 379-403, on the frame read from the uploaded file and the
\* category table of this run: the table afterwards and the message shown.
upload_csv(word_sets, df) ==
    IF missing_cols(df) # <<>>
    THEN [word_sets |-> word_sets, level |-> "error",
          text |-> "CSV is missing required columns", cols |-> missing_cols(df)]
    ELSE IF RowKeyError(df)
    THEN [word_sets |-> word_sets, level |-> "error",
          text |-> "Error processing file", cols |-> <<>>]
    ELSE IF "category" \in df.columns
    THEN LET names == {df.rows[k]["category"] : k \in 1..Len(df.rows)}
             keys == {custom_key(n) : n \in names}
             group(key) ==
                 SelectSeq(df.rows,
                           LAMBDA row : custom_key(row["category"]) = key)
         IN [word_sets |->
                 [key \in DOMAIN word_sets \cup keys |->
                      IF key \in keys THEN word_dict(group(key))
                      ELSE word_sets[key]],
             level |-> "success", text |-> "Successfully loaded",
             cols |-> <<>>]
    ELSE [word_sets |-> Assign(word_sets, "Custom Words", word_dict(df.rows)),
          level |-> "success", text |-> "Successfully loaded", cols |-> <<>>]

\* streamlit_template/utils.py, load_custom_word_pairs, on the frame read
\* from the file: every exception leaves as Exception.
load_custom_word_pairs(df) ==
    IF missing_cols(df) # <<>> \/ RowKeyError(df)
    THEN [value |-> None, exc |-> "Exception"]
    ELSE [value |-> word_dict(df.rows), exc |-> "None"]

\* ------------------------------------------- split_words_into_categories
\* streamlit_template/utils.py.  lst[start:end] of Python, for indices
\* that are not negative: both ends are cut to the length of the list.  The parameter word_dict of the
\* source is words_dict here.
Slice(lst, start, end) ==
    SubSeq(lst, Min(start, Len(lst)) + 1, Min(end, Len(lst)))

\* list(word_dict.keys()), the dict kept as the list of its items.
dict_keys(words_dict) == [k \in 1..Len(words_dict) |-> words_dict[k][1]]

\* word_dict[word]
dict_get(words_dict, word) ==
    words_dict[CHOOSE k \in 1..Len(words_dict) : words_dict[k][1] = word][2]

\* end_idx as it would be if the last category took words_per_category
\* words as the others do.
split_end_idx_even(i, n_categories, words_per_category, n_words) ==
    i * words_per_category + words_per_category

\* line 172: end_idx of the category at index i.
split_end_idx(i, n_categories, words_per_category, n_words) ==
    IF i < n_categories - 1
    THEN i * words_per_category + words_per_category
    ELSE n_words

\* lines 169-175: the loop from the category at index i on, over the
\* shuffled words.
RECURSIVE split_from(_, _, _, _, _)
split_from(result, i, categories, all_words, words_dict) ==
    IF i >= Len(categories) THEN result
    ELSE LET words_per_category ==
                 IF Len(all_words) \div Len(categories) > 1
                 THEN Len(all_words) \div Len(categories) ELSE 1
             start_idx == i * words_per_category
             end_idx == split_end_idx(i, Len(categories), words_per_category,
                                      Len(all_words))
             category_words == Slice(all_words, start_idx, end_idx)
             words == [k \in 1..Len(category_words) |->
                          <<category_words[k],
                            dict_get(words_dict, category_words[k])>>]
         IN split_from(Assign(result, categories[i + 1], words), i + 1,
                       categories, all_words, words_dict)

\* lines 144-177, with the draws r of random.shuffle: the result, a dict
\* of dicts, as a function from the category names to lists of items.
split_words_into_categories(words_dict, categories, r) ==
    LET cats == IF categories = <<>> THEN <<"Set 1", "Set 2", "Set 3">>
                ELSE categories
        all_words == random_shuffle(dict_keys(words_dict), r)
    IN split_from(<<>>, 0, cats, all_words, words_dict)

\* ----------------------------------------------------------- behaviour
\* The session state once the script has run for the first time.
initial_session_state ==
    [game_active |-> FALSE,
     selected_cards |-> <<>>,
     matched_pairs |-> <<>>,
     attempts |-> 0,
     start_time |-> None,
     difficulty |-> "Easy",
     just_uploaded_csv |-> FALSE,
     showing_non_match |-> FALSE]

Init ==
    /\ session_state = initial_session_state
    /\ call = NoCall

\* The inputs of one start_game call with the outcomes of its random.sample
\* (pairs), its random.shuffle (r) and its time.time() (t).
StartInputs ==
    UNION {UNION {{<<cd[1], cd[2],
                     get_word_pairs(cd[1], pair_count(cd[2]), d).value, r, t>> :
                      r \in ShuffleDraws(2 * pair_count(cd[2])),
                      t \in Times} :
                  d \in SampleDraws(Len(all_pairs(cd[1])),
                                    pair_count(cd[2]))} :
           cd \in CategoryInputs \X DifficultyInputs}

StartGame ==
    /\ \E in \in StartInputs :
          session_state' =
              start_game(session_state, in[1], in[2], in[3], in[4], in[5])
    /\ UNCHANGED call

\* The indices of the cards on the board.
DeckIndices(s) ==
    IF "all_cards" \in DOMAIN s THEN 0..(Len(s["all_cards"]) - 1) ELSE {}

HandleCardClick ==
    \E card_index \in DeckIndices(session_state) :
      LET res == handle_card_click(session_state, card_index)
      IN /\ res.exc = "None"
         /\ res.st["attempts"] <= MaxAttempts
         /\ session_state' = res.st
         /\ UNCHANGED call

ContinueClick ==
    /\ "all_cards" \in DOMAIN session_state
    /\ continue_shown(session_state)
    /\ session_state' = continue_button(session_state)
    /\ UNCHANGED call

VerifyGameState ==
    /\ session_state' = verify_game_state(session_state)
    /\ UNCHANGED call

Next ==
    \/ StartGame
    \/ HandleCardClick
    \/ ContinueClick
    \/ VerifyGameState

Spec == Init /\ [][Next]_vars

\* ------------------------------------------------- counting the attempts
\* The same game, with call counting the pairs of the current game that
\* handle_card_click found to match (lines 164-168) and not to match
\* (lines 169-171).
NoCounts == [fn |-> "count", matches |-> 0, mismatches |-> 0]

InitCount ==
    /\ session_state = initial_session_state
    /\ call = NoCounts

CountedStart ==
    /\ \E in \in StartInputs :
          session_state' =
              start_game(session_state, in[1], in[2], in[3], in[4], in[5])
    /\ call' = NoCounts

CountedClick ==
    /\ "all_cards" \in DOMAIN session_state
    /\ \E card_index \in DeckIndices(session_state) :
         LET res == handle_card_click(session_state, card_index)
             matched == Len(res.st["matched_pairs"])
                          > Len(session_state["matched_pairs"])
             shown == res.st["showing_non_match"]
                          /\ ~session_state["showing_non_match"]
         IN /\ res.exc = "None"
            /\ res.st["attempts"] <= MaxAttempts
            /\ session_state' = res.st
            /\ call' = [call EXCEPT
                          !.matches = @ + (IF matched THEN 1 ELSE 0),
                          !.mismatches = @ + (IF shown THEN 1 ELSE 0)]

CountedContinue ==
    /\ "all_cards" \in DOMAIN session_state
    /\ continue_shown(session_state)
    /\ session_state' = continue_button(session_state)
    /\ UNCHANGED call

CountedVerify ==
    /\ session_state' = verify_game_state(session_state)
    /\ UNCHANGED call

NextCount ==
    \/ CountedStart
    \/ CountedClick
    \/ CountedContinue
    \/ CountedVerify

SpecCount == InitCount /\ [][NextCount]_vars

\* --------------------------------------------------- calls one by one
\* One call of get_word_pairs and the deck start_game builds from what it
\* returned, each on inputs drawn from small sets.  The counts go from 1 to MaxCount above the 8
\* items of a category, the 4, 6 and 8 of DIFFICULTIES among them, so that
\* counts below, at and above the number of items all occur.
Counts == 1..(Len(WORD_SETS["Science"]) + MaxCount)

\* The shuffles explored of a deck of n cards: all of them for a deck of
\* up to 4 cards, the first MaxShuffles for a larger one.
CallShuffleDraws(n) ==
    IF n <= 4 THEN AllShuffleDraws(n) ELSE ShuffleDraws(n)

CallGetWordPairs ==
    /\ call = NoCall
    /\ \E category \in DOMAIN WORD_SETS, count \in Counts :
         \E d \in SampleDraws(Len(all_pairs(category)),
                              Min(count, Len(all_pairs(category)))) :
           LET res == get_word_pairs(category, count, d)
           IN call' = [fn |-> "get_word_pairs", category |-> category,
                       count |-> count, pairs |-> res.value,
                       exc |-> res.exc]
    /\ UNCHANGED session_state

CallStartGame ==
    /\ call.fn = "get_word_pairs"
    /\ call.exc = "None"
    /\ \E difficulty \in DOMAIN DIFFICULTIES,
          r \in CallShuffleDraws(2 * Len(call.pairs)), t \in Times :
         session_state' = start_game(session_state, call.category, difficulty,
                                     call.pairs, r, t)
    /\ call' = [call EXCEPT !.fn = "start_game"]

\* The count start_game asks for, in both revisions, for a name of the
\* table or not.
DifficultyNames == {"Easy", "Medium", "Hard", "Expert", "easy", ""}

CallPairCount ==
    /\ call = NoCall
    /\ \E difficulty \in DifficultyNames :
         call' = [fn |-> "pair_count", difficulty |-> difficulty,
                  count |-> pair_count(difficulty),
                  template_count |-> template_pair_count(difficulty)]
    /\ UNCHANGED session_state

\* One call of calculate_score.  The attempts reach past max_attempts and
\* the seconds past max_time of the largest game, so that both inner
\* max(0, ...) and both ends of the outer clamp are used.
ScoreAttempts == 0..(3 * MaxCount + 1)
ScoreTimes == 0..(15 * MaxCount + 1)

CallCalculateScore ==
    /\ call = NoCall
    /\ \E total_pairs \in 0..MaxCount, attempts \in ScoreAttempts,
          time_seconds \in ScoreTimes :
         \E pairs_found \in 0..total_pairs :
           LET result == calculate_score(pairs_found, total_pairs, attempts,
                                         time_seconds)
           IN IF result.exc # "None"
              THEN call' = [fn |-> "calculate_score",
                            pairs_found |-> pairs_found,
                            total_pairs |-> total_pairs,
                            attempts |-> attempts,
                            time_seconds |-> time_seconds,
                            value |-> None, exc |-> result.exc]
              ELSE \E value \in result.values :
                     call' = [fn |-> "calculate_score",
                              pairs_found |-> pairs_found,
                              total_pairs |-> total_pairs,
                              attempts |-> attempts,
                              time_seconds |-> time_seconds,
                              value |-> value, exc |-> "None"]
    /\ UNCHANGED session_state

\* One call of split_words_into_categories, on the first n items of a dict
\* in which two words share a definition, for a list of distinct category
\* names or for none, in every order the shuffle may leave.
MaxSplitWords == 4

SplitItems ==
    << <<<<"Atom">>, <<"Unit">>>>,
       <<<<"Cell">>, <<"Unit">>>>,
       <<<<"Gene">>, <<"Heredity">>>>,
       <<<<"Ion">>, <<"Charged atom">>>>,
       <<<<"Jet">>, <<"Stream">>>>,
       <<<<"Keel">>, <<"Spine of a hull">>>> >>

SplitNames == <<"Nouns", "Set 1", "Verbs", "Misc", "Extra">>

SplitCategories ==
    UNION {{cats \in [1..n -> {SplitNames[k] : k \in 1..MaxCount}] :
                \A a, b \in 1..n : a # b => cats[a] # cats[b]} :
           n \in 0..MaxCount}

CallSplitWords ==
    /\ call = NoCall
    /\ \E n \in 0..MaxSplitWords, categories \in SplitCategories :
         \E r \in AllShuffleDraws(n) :
           call' = [fn |-> "split_words_into_categories",
                    word_dict |-> SubSeq(SplitItems, 1, n),
                    categories |-> categories,
                    result |-> split_words_into_categories(
                                   SubSeq(SplitItems, 1, n), categories, r)]
    /\ UNCHANGED session_state

NextCalls ==
    \/ CallGetWordPairs
    \/ CallStartGame
    \/ CallPairCount
    \/ CallCalculateScore
    \/ CallSplitWords

SpecCalls == Init /\ [][NextCalls]_vars

\* ------------------------------------------------- a two-pair scenario
\* The pairs get_word_pairs is taken to have returned: two pairs, one
\* of the word Algorithm and one of the word Atom.
ScenarioPairs ==
    << <<<<"Algorithm">>, <<"A step-by-step procedure">>>>,
       <<<<"Atom">>, <<"Basic unit of matter">>>> >>

\* A game started on these pairs, in every shuffle order.
InitScenario ==
    /\ \E r \in AllShuffleDraws(2 * Len(ScenarioPairs)), t \in Times :
          session_state = start_game(initial_session_state, "Technology",
                                     "Easy", ScenarioPairs, r, t)
    /\ call = NoCall

NextScenario ==
    \/ HandleCardClick
    \/ ContinueClick

SpecScenario == InitScenario /\ [][NextScenario]_vars

\* ------------------------------------------- the repair on any state
\* verify_game_state called once on a session state that need not be one
\* the game produces: with or without a deck, any list of up to
\* MaxSelected keys as the selection, showing_non_match true, false or
\* not yet set (line 228 runs before lines 319-320 on the first run), the
\* keys of two cards in matched_pairs or none, attempts 0 or MaxAttempts.  The attributes of
\* lines 22-36 are always there.
RepairDeck ==
    start_game(initial_session_state, "Science", "Easy",
               get_word_pairs("Science", pair_count("Easy"), 0).value, 0, 1)

RepairKeys ==
    {card_key(i, Item(RepairDeck["all_cards"], i)[2]) :
        i \in DeckIndices(RepairDeck)}

RepairSelections == UNION {[1..n -> RepairKeys] : n \in 0..MaxSelected}

RepairStates ==
    LET set == {[[[base EXCEPT !["selected_cards"] = sel]
                         EXCEPT !["showing_non_match"] = flag]
                         EXCEPT !["attempts"] = att] :
                    base \in {initial_session_state, RepairDeck},
                    sel \in RepairSelections,
                    flag \in BOOLEAN,
                    att \in {0, MaxAttempts}}
        matched == set \cup
                   {[s EXCEPT !["matched_pairs"] =
                         <<card_key(0, Item(RepairDeck["all_cards"], 0)[2]),
                           card_key(1, Item(RepairDeck["all_cards"], 1)[2])>>] :
                        s \in set}
    IN matched \cup {Unset(s, "showing_non_match") : s \in matched}

InitRepair ==
    /\ session_state \in RepairStates
    /\ call = NoCall

CallVerify ==
    /\ call = NoCall
    /\ session_state' = verify_game_state(session_state)
    /\ call' = [fn |-> "verify_game_state", before |-> session_state]

SpecRepair == InitRepair /\ [][CallVerify]_vars

\* ------------------------------------------------- interaction cycles
\* One step per interaction cycle of the page: the player acts on a widget
\* of the page as the last run left it, an on_click callback, if the
\* widget has one, runs first, then the script runs from the top
\* (verify_game_state at line 228, the Start New Game button at line 278,
\* the Play Again button at line 446, the Continue button at line 582),
\* and st.rerun() runs it once more.  call holds the handlers of the
\* cycle in the order they ran, and whether the handler of the cycle
\* acted on a state verify_game_state leaves as it is.
Cycle(trace, before) ==
    [fn |-> "cycle", trace |-> trace,
     repaired |-> (verify_game_state(before) = before)]

InitCycle ==
    /\ session_state = initial_session_state
    /\ call = Cycle(<<"verify_game_state">>, initial_session_state)

\* A card button is clicked: handle_card_click is its on_click callback.
CycleCardClick ==
    \E card_index \in DeckIndices(session_state) :
        LET res == handle_card_click(session_state, card_index)
        IN /\ card_enabled(session_state, card_index)
           /\ res.exc = "None"
           /\ res.st["attempts"] <= MaxAttempts
           /\ session_state' = verify_game_state(res.st)
           /\ call' = Cycle(<<"handle_card_click", "verify_game_state">>,
                            session_state)

\* Start New Game is clicked: line 279 runs in the script, after line 228.
CycleStartGame ==
    \E in \in StartInputs :
        LET s1 == verify_game_state(session_state)
        IN /\ session_state' =
                 start_game(s1, in[1], in[2], in[3], in[4], in[5])
           /\ call' = Cycle(<<"verify_game_state", "start_game">>, s1)

\* Play Again is clicked on the completion screen: lines 446-452, with
\* the category of the selectbox and the difficulty of the finished game.
CyclePlayAgain ==
    /\ play_again_shown(session_state)
    /\ \E in \in StartInputs :
         LET s1 == verify_game_state(session_state)
             s2 == start_game(s1, in[1], s1["difficulty"], in[3], in[4], in[5])
         IN /\ in[2] = s1["difficulty"]
            /\ session_state' = verify_game_state(s2)
            /\ call' = Cycle(<<"verify_game_state", "start_game",
                               "verify_game_state">>, s1)

\* Continue is clicked: lines 582-585.
CycleContinue ==
    /\ "all_cards" \in DOMAIN session_state
    /\ continue_shown(session_state)
    /\ LET s1 == verify_game_state(session_state)
       IN /\ session_state' = verify_game_state(continue_button(s1))
          /\ call' = Cycle(<<"verify_game_state", "continue_button",
                             "verify_game_state">>, s1)

\* Any other widget is used (the category selectbox, the difficulty
\* selector): the script runs and no handler does.
CycleRerun ==
    LET s1 == verify_game_state(session_state)
    IN /\ session_state' = s1
       /\ call' = Cycle(<<"verify_game_state">>, s1)

NextCycle ==
    \/ CycleCardClick
    \/ CycleStartGame
    \/ CyclePlayAgain
    \/ CycleContinue
    \/ CycleRerun

SpecCycle == InitCycle /\ [][NextCycle]_vars

\* One game, from any state start_game can leave (the flag of a non-match
\* on show when it was called is still raised, line 135 then ignores every
\* click), with clicks and Continue only.
InitGame ==
    /\ \E in \in StartInputs, flag \in BOOLEAN :
          session_state =
              start_game(Assign(initial_session_state, "showing_non_match",
                                flag),
                         in[1], in[2], in[3], in[4], in[5])
    /\ call = NoCall

NextGame ==
    \/ HandleCardClick
    \/ ContinueClick

SpecGame == InitGame /\ [][NextGame]_vars

\* The game with no step of verify_game_state.
NextNoRepair ==
    \/ StartGame
    \/ HandleCardClick
    \/ ContinueClick

SpecNoRepair == Init /\ [][NextNoRepair]_vars

\* The completion screen is on the page.
Complete(s) ==
    /\ "all_cards" \in DOMAIN s
    /\ s["game_active"]
    /\ game_completed(s)

\* ------------------------------------- the efficiency score on the page
\* The interaction cycles again, with call holding what the page the cycle
\* leaves shows of the efficiency score: line 421 is evaluated in the
\* branch of line 413 only, on the completion screen of an active game,
\* with total_pairs of line 410 and the attempts of the session state.
\* (A click on Play Again runs line 421 once more on the state the page
\* before was drawn from, then starts the new game and reruns.)  A click
\* that would raise attempts above MaxCompletionAttempts is not taken, so
\* that games with and without a mismatch are completed.
MaxCompletionAttempts == 5

BoardPage == [fn |-> "board"]

CompletionPage(s) ==
    IF Complete(s)
    THEN [fn |-> "efficiency",
          total_pairs |-> Len(s["all_cards"]) \div 2,
          attempts |-> s["attempts"],
          result |-> efficiency(Len(s["all_cards"]) \div 2, s["attempts"])]
    ELSE BoardPage

InitPage ==
    /\ session_state = initial_session_state
    /\ call = BoardPage

PageCardClick ==
    \E card_index \in DeckIndices(session_state) :
        LET res == handle_card_click(session_state, card_index)
        IN /\ call.fn = "board"
           /\ card_enabled(session_state, card_index)
           /\ res.exc = "None"
           /\ res.st["attempts"] <= MaxCompletionAttempts
           /\ session_state' = verify_game_state(res.st)
           /\ call' = CompletionPage(verify_game_state(res.st))

PageStartGame ==
    \E in \in StartInputs :
        LET s1 == start_game(verify_game_state(session_state),
                             in[1], in[2], in[3], in[4], in[5])
        IN /\ session_state' = s1
           /\ call' = CompletionPage(s1)

PagePlayAgain ==
    /\ call.fn = "efficiency"
    /\ play_again_shown(session_state)
    /\ \E in \in StartInputs :
         LET s1 == verify_game_state(session_state)
             s2 == verify_game_state(
                       start_game(s1, in[1], s1["difficulty"], in[3], in[4],
                                  in[5]))
         IN /\ in[2] = s1["difficulty"]
            /\ session_state' = s2
            /\ call' = CompletionPage(s2)

PageContinue ==
    /\ call.fn = "board"
    /\ "all_cards" \in DOMAIN session_state
    /\ continue_shown(session_state)
    /\ LET s1 == verify_game_state(
                     continue_button(verify_game_state(session_state)))
       IN /\ session_state' = s1
          /\ call' = CompletionPage(s1)

PageRerun ==
    LET s1 == verify_game_state(session_state)
    IN /\ session_state' = s1
       /\ call' = CompletionPage(s1)

NextPage ==
    \/ PageCardClick
    \/ PageStartGame
    \/ PagePlayAgain
    \/ PageContinue
    \/ PageRerun

SpecPage == InitPage /\ [][NextPage]_vars

\* ------------------------------------- cycles of the timed revision
\* One step per interaction cycle of streamlit_template/app.py, and the
\* passing of a second.  The on_click callback runs first, then the script:
\* the New Game button (line 188), the check of the non-match time (lines
\* 221-230), the Play Again button (line 294).  call holds the time, the
\* time at which the two cards now selected were found not to match (none
\* when no such pair is selected), and what the check of the last cycle
\* cleared.
\* The inputs of one start_game call of the New Game button (lines 172-189):
\* the category and difficulty of the sidebar and the outcomes of
\* random.sample (d) in get_word_pairs (lines 95-100), of random.shuffle
\* (r) and of time.time(), which is the time of the cycle.
TimedStartInputs ==
    UNION {{<<cd[1], cd[2],
              get_word_pairs(cd[1], template_pair_count(cd[2]), d).value, r>> :
               d \in SampleDraws(Len(all_pairs(cd[1])),
                                 template_pair_count(cd[2])),
               r \in 0..(SampleCount(2 * template_pair_count(cd[2]),
                                      2 * template_pair_count(cd[2]),
                                      MaxTimedShuffles) - 1)} :
           cd \in CategoryInputs \X DifficultyInputs}

NotCleared == [fired |-> FALSE, cards |-> 0, mismatch |-> FALSE, age |-> <<>>]

\* What the check of lines 221-230 cleared, on the state s it ran on.
Cleared(s, now, revealed) ==
    IF clear_non_match(s, now) = s THEN NotCleared
    ELSE [fired |-> TRUE,
          cards |-> Len(s["selected_cards"]),
          mismatch |-> /\ Len(s["selected_cards"]) = 2
                       /\ ~is_match(
                             Item(s["all_cards"],
                                  StrToInt(SplitColon(s["selected_cards"][1])[1])),
                             Item(s["all_cards"],
                                  StrToInt(SplitColon(s["selected_cards"][2])[1]))),
          age |-> IF revealed = <<>> THEN <<>> ELSE <<now - revealed[1]>>]

\* call after the script has run from line 221 on, the handlers of the
\* cycle having left s with the pair of s revealed at the time in revealed.
TimedCall(s, revealed) ==
    [fn |-> "timed", now |-> call.now,
     revealed |-> IF clear_non_match(s, call.now)["selected_cards"] = <<>>
                  THEN <<>> ELSE revealed,
     cleared |-> Cleared(s, call.now, revealed)]

InitTimed ==
    /\ session_state = template_initial_session_state
    /\ call = [fn |-> "timed", now |-> 1, revealed |-> <<>>,
               cleared |-> NotCleared]

TimedNewGame ==
    \E in \in TimedStartInputs :
        LET s1 == template_start_game(session_state, in[1], in[2], in[3],
                                      in[4], call.now)
        IN /\ session_state' = clear_non_match(s1, call.now)
           /\ call' = TimedCall(s1, <<>>)

TimedCardClick ==
    \E card_index \in DeckIndices(session_state) :
        LET res == template_handle_card_click(session_state, card_index,
                                              call.now)
            second == /\ Len(session_state["selected_cards"]) = 1
                      /\ Len(res.st["selected_cards"]) = 2
        IN /\ template_card_enabled(session_state, card_index)
           /\ Len(session_state["selected_cards"]) < MaxSelected
           /\ res.exc = "None"
           /\ res.st["attempts"] <= MaxAttempts
           /\ session_state' = clear_non_match(res.st, call.now)
           /\ call' = TimedCall(res.st, IF second THEN <<call.now>>
                                        ELSE call.revealed)

\* Any other widget is used: the script runs and no handler does.
TimedRerun ==
    /\ session_state' = clear_non_match(session_state, call.now)
    /\ call' = TimedCall(session_state, call.revealed)

\* Play Again on the completion screen, lines 294-295, after the check.
TimedPlayAgain ==
    /\ Complete(session_state)
    /\ session_state' =
          template_reset_game(clear_non_match(session_state, call.now))
    /\ call' = [call EXCEPT !.revealed = <<>>,
                            !.cleared = Cleared(session_state, call.now,
                                                call.revealed)]

Tick ==
    /\ call.now < 1 + MaxTime
    /\ call' = [call EXCEPT !.now = @ + 1]
    /\ UNCHANGED session_state

NextTimed ==
    \/ TimedNewGame
    \/ TimedCardClick
    \/ TimedRerun
    \/ TimedPlayAgain
    \/ Tick

SpecTimed == InitTimed /\ [][NextTimed]_vars

\* ---------------------------------------------------- uploads one by one
\* One upload on the welcome screen, or one call of
\* load_custom_word_pairs, on a frame of up to MaxRows rows over any
\* columns among word, definition, category and notes.  One of the category
\* names is the name of a built-in category.
Columns == {"word", "definition", "category", "notes"}

Cells(col) ==
    IF col = "word" THEN {<<"Atom">>, <<"Cell">>}
    ELSE IF col = "definition"
    THEN {<<"Basic unit of matter">>, <<"Unit of life">>}
    ELSE IF col = "category"
    THEN {CategoryNames[k] : k \in 1..Len(CategoryNames)}
    ELSE {<<"n">>}

RowsOver(cols) ==
    {row \in [cols -> UNION {Cells(col) : col \in cols}] :
        \A col \in cols : row[col] \in Cells(col)}

Frames ==
    UNION {UNION {{[columns |-> cols, rows |-> rows] :
                      rows \in [1..n -> RowsOver(cols)]} :
                  n \in 0..MaxRows} :
           cols \in (SUBSET Columns) \ {{}}}

CallUpload ==
    /\ call = NoCall
    /\ ~session_state["game_active"]
    /\ \E df \in Frames :
         call' = [fn |-> "upload_csv", df |-> df,
                  result |-> upload_csv(WORD_SETS, df),
                  keys |-> upload_keys(WORD_SETS_keys, df)]
    /\ UNCHANGED session_state

CallLoadCustomWordPairs ==
    /\ call = NoCall
    /\ \E df \in Frames :
         call' = [fn |-> "load_custom_word_pairs", df |-> df,
                  result |-> load_custom_word_pairs(df)]
    /\ UNCHANGED session_state

NextUpload ==
    \/ CallUpload
    \/ CallLoadCustomWordPairs

SpecUpload == Init /\ [][NextUpload]_vars

\* --------------------------------------------------- category selection
\* cat.startswith(prefix) on whole strings.
startswith(cat, prefix) ==
    Len(cat) >= Len(prefix) /\ SubSeq(cat, 1, Len(prefix)) = prefix

\* main, lines 236-237, on the keys of the category table in their order.
built_in_categories(keys) ==
    SelectSeq(keys, LAMBDA cat : ~startswith(cat, "Custom"))

custom_categories(keys) ==
    SelectSeq(keys, LAMBDA cat : startswith(cat, "Custom"))

\* lines 240-241 and 268-270: the options of the selectbox.
all_categories(keys) ==
    IF custom_categories(keys) # <<>>
    THEN built_in_categories(keys) \o <<"---">> \o custom_categories(keys)
    ELSE built_in_categories(keys)

\* lines 240-272: the category of the run for the option picked.
resolve_category(keys, category_option) ==
    IF custom_categories(keys) # <<>>
    THEN IF category_option = "---"
         THEN IF custom_categories(keys) # <<>>
              THEN custom_categories(keys)[1]
              ELSE built_in_categories(keys)[1]
         ELSE category_option
    ELSE category_option

\* ------------------------------------------- the script after an upload
\* The script runs from its first line at every interaction.  Line 39
\* assigns WORD_SETS anew at each run, the sidebar (lines 232-279) reads it
\* before the uploader (lines 379-403, on the welcome screen only) stores
\* anything in it, and just_uploaded_csv is set nowhere: whatever table the
\* run before left, the table of a run is the one of line 39.
\* left is what the run before left: the table and its keys in the order
\* of their insertion.
\* script_word_sets as it would be if the table of the run before stayed.
script_word_sets_kept(left) == left

script_word_sets(left) == [word_sets |-> WORD_SETS, keys |-> WORD_SETS_keys]

\* sidebar_keys as it would be if the sidebar read the table the run
\* before left.
sidebar_keys_kept(left) == left.keys

\* lines 236-237: WORD_SETS.keys() as the sidebar of the run reads them.
sidebar_keys(left) == script_word_sets(left).keys

\* get_word_pairs, lines 83-84, on the category table of the run: a
\* category that is no key of it is a KeyError.
get_word_pairs_of(word_sets, category, count, d) ==
    IF category \notin DOMAIN word_sets
    THEN [value |-> <<>>, exc |-> "KeyError"]
    ELSE sample_or_raise(word_sets[category],
                         Min(count, Len(word_sets[category])), d)

\* The draws of the sample of get_word_pairs_of that are explored.
SampleDrawsOf(word_sets, category, count) ==
    IF category \notin DOMAIN word_sets THEN {0}
    ELSE SampleDraws(Len(word_sets[category]),
                     Min(count, Len(word_sets[category])))

\* main, lines 291-298, the game stats of the sidebar:
\* completion = (matched_count / total_pairs) * 100, as the fraction
\* <<numerator, denominator>>.
completion(s) ==
    LET total_pairs == Len(s["all_cards"]) \div 2
        matched_count == Len(s["matched_pairs"]) \div 2
    IN IF total_pairs = 0
       THEN [value |-> None, exc |-> "ZeroDivisionError"]
       ELSE [value |-> <<matched_count * 100, total_pairs>>, exc |-> "None"]

\* A run that processed an uploaded file, then a run in which the player
\* picks an option of the selectbox and presses Start New Game (lines
\* 278-279): start_game on the category of the run, with the table of the
\* run.
UploadThenStart ==
    /\ call.fn = "upload_csv"
    /\ LET left == [word_sets |-> call.result.word_sets, keys |-> call.keys]
           word_sets == script_word_sets(left).word_sets
           keys == sidebar_keys(left)
       IN \E k \in 1..Len(all_categories(keys)),
             difficulty \in DifficultyInputs :
            LET category == resolve_category(keys, all_categories(keys)[k])
            IN \E d \in SampleDrawsOf(word_sets, category,
                                      pair_count(difficulty)) :
                 LET res == get_word_pairs_of(word_sets, category,
                                              pair_count(difficulty), d)
                 IN \E r \in ShuffleDraws(2 * Len(res.value)), t \in Times :
                      /\ session_state' =
                             IF res.exc = "None"
                             THEN start_game(session_state, category,
                                             difficulty, res.value, r, t)
                             ELSE session_state
                      /\ call' = [fn |-> "start_game",
                                  category |-> category,
                                  exc |-> res.exc,
                                  rows |-> Len(call.df.rows),
                                  stored |-> DOMAIN call.result.word_sets]

NextCustom ==
    \/ CallUpload
    \/ UploadThenStart

SpecCustom == Init /\ [][NextCustom]_vars

\* A run that may have processed an uploaded file, then a run in which the
\* player picks an option of the selectbox; call keeps the category of the
\* run, which lines 279 and 449 pass to start_game, and whether it is a key
\* of the table of the run.
SelectCategory ==
    /\ call.fn \in {"none", "upload_csv"}
    /\ LET left == IF call.fn = "none"
                   THEN [word_sets |-> WORD_SETS, keys |-> WORD_SETS_keys]
                   ELSE [word_sets |-> call.result.word_sets,
                         keys |-> call.keys]
           keys == sidebar_keys(left)
       IN \E k \in 1..Len(all_categories(keys)) :
            LET category == resolve_category(keys, all_categories(keys)[k])
            IN call' = [fn |-> "select", keys |-> keys,
                        category_option |-> all_categories(keys)[k],
                        category |-> category,
                        known |-> category \in
                                    DOMAIN script_word_sets(left).word_sets,
                        stored |-> DOMAIN left.word_sets]
    /\ UNCHANGED session_state

NextSelect ==
    \/ CallUpload
    \/ SelectCategory

SpecSelect == Init /\ [][NextSelect]_vars

\* --------------------------------------------------- games with resets
\* reset_game as it would be if it left the game active.
reset_game_staying_active(s) ==
    LET s2 == Assign(s, "selected_cards", <<>>)
        s3 == Assign(s2, "matched_pairs", <<>>)
        s4 == Assign(s3, "attempts", 0)
    IN Assign(s4, "start_time", None)

\* reset_game, lines 86-92.
reset_game(s) ==
    LET s1 == Assign(s, "game_active", FALSE)
        s2 == Assign(s1, "selected_cards", <<>>)
        s3 == Assign(s2, "matched_pairs", <<>>)
        s4 == Assign(s3, "attempts", 0)
    IN Assign(s4, "start_time", None)

\* main, line 415: elapsed = int(time.time() - st.session_state.start_time)
\* at the time now; a float minus None is a TypeError.
elapsed(s, now) ==
    IF s["start_time"] = None
    THEN [value |-> None, exc |-> "TypeError"]
    ELSE [value |-> now - s["start_time"], exc |-> "None"]

\* The calls of start_game, reset_game, handle_card_click and the Continue
\* handler in any order; call remembers that reset_game has been called.
ResetGame ==
    /\ session_state' = reset_game(session_state)
    /\ call' = [fn |-> "reset_game"]

NextReset ==
    \/ StartGame
    \/ ResetGame
    \/ HandleCardClick
    \/ ContinueClick

SpecReset == Init /\ [][NextReset]_vars

\* ------------------------------------------- games on clashing texts
\* Games on the items of a category whose texts clash: words that share a
\* definition text, and a word whose text is the definition text of another
\* word.  The words of a dict are distinct, its definitions need not be.
ClashWords == {<<"Atom">>, <<"Cell">>, <<"Gene">>}
ClashDefinitions == {<<"Atom">>, <<"Unit">>}

\* The lists get_word_pairs may return on such categories.
ClashPairs ==
    UNION {{pairs \in [1..n -> ClashWords \X ClashDefinitions] :
                \A a, b \in 1..n : a # b => pairs[a][1] # pairs[b][1]} :
           n \in 1..MaxWords}

\* start_game, lines 109-115: the number of the tuple each card of the deck
\* is made from, in the order of the cards before the shuffle and after
\* the shuffle of draws r.
RECURSIVE build_origin(_, _)
build_origin(k, n) ==
    IF k > n THEN <<>> ELSE <<k, k>> \o build_origin(k + 1, n)

deck_origin(pairs, r) == random_shuffle(build_origin(1, Len(pairs)), r)

\* A game started on one of these lists; call keeps the tuple of each card.
InitClash ==
    \E pairs \in ClashPairs :
      \E r \in ShuffleDraws(2 * Len(pairs)), t \in Times :
        /\ session_state = start_game(initial_session_state, "Custom Words",
                                      "Easy", pairs, r, t)
        /\ call = [fn |-> "deck", origin |-> deck_origin(pairs, r)]

SpecClash == InitClash /\ [][NextGame]_vars

\* ------------------------------------------- games on texts with colons
\* Games on the items of a category whose texts hold colons, at their
\* start, inside and after digits.
ColonWords == {<<"Atom">>, <<":", "Cell">>, <<"1", ":", "Gene">>}
ColonDefinitions == {<<"Unit">>, <<"Ratio 2", ":", "1">>}

ColonPairs ==
    UNION {{pairs \in [1..n -> ColonWords \X ColonDefinitions] :
                \A a, b \in 1..n : a # b => pairs[a][1] # pairs[b][1]} :
           n \in 1..MaxWords}

InitColon ==
    \E pairs \in ColonPairs :
      \E r \in ShuffleDraws(2 * Len(pairs)), t \in Times :
        /\ session_state = start_game(initial_session_state, "Custom Words",
                                      "Easy", pairs, r, t)
        /\ call = [fn |-> "deck", card_index |-> -1, stored |-> FALSE]

\* A card button is clicked; call keeps the index it was clicked with and
\* whether handle_card_click stored a key for it.
ColonCardClick ==
    \E card_index \in DeckIndices(session_state) :
      LET res == handle_card_click(session_state, card_index)
      IN /\ res.exc = "None"
         /\ res.st["attempts"] <= MaxAttempts
         /\ session_state' = res.st
         /\ call' = [fn |-> "click", card_index |-> card_index,
                     stored |-> res.st # session_state]

ColonContinue ==
    /\ continue_shown(session_state)
    /\ session_state' = continue_button(session_state)
    /\ call' = [fn |-> "continue", card_index |-> -1, stored |-> FALSE]

NextColon ==
    \/ ColonCardClick
    \/ ColonContinue

SpecColon == InitColon /\ [][NextColon]_vars

\* -------------------------------------------------------------- claims
HasDeck == "all_cards" \in DOMAIN session_state

\* The pairing predicate on two cards (kind, text, pair text).
IsPair(cardA, cardB) ==
    /\ cardA[1] # cardB[1]
    /\ cardA[3] = cardB[2]
    /\ cardB[3] = cardA[2]

\* The deck index a stored key was made from, and the card at it.
KeyIndex(key) == StrToInt(SplitColon(key)[1])
KeyCard(s, key) == Item(s["all_cards"], KeyIndex(key))

SelectedIndices(s) ==
    {KeyIndex(s["selected_cards"][k]) : k \in 1..Len(s["selected_cards"])}
MatchedIndices(s) ==
    {KeyIndex(s["matched_pairs"][k]) : k \in 1..Len(s["matched_pairs"])}

\* The key handle_card_click makes for the card at index i.
KeyOf(s, i) == card_key(i, Item(s["all_cards"], i)[2])

\* Indices inside the deck, and some on either side of it.
AnyIndices(s) ==
    LET n == IF "all_cards" \in DOMAIN s THEN Len(s["all_cards"]) ELSE 0
    IN (-(n + 2))..(n + 1)
OutOfRange(s) == AnyIndices(s) \ DeckIndices(s)

\* A second card can be added: the board is unlocked, one card is selected
\* and the card at index i is neither matched nor selected.
SecondCard(s, i) ==
    /\ "all_cards" \in DOMAIN s
    /\ i \in DeckIndices(s)
    /\ ~s["showing_non_match"]
    /\ Len(s["selected_cards"]) = 1
    /\ i \notin SelectedIndices(s) \cup MatchedIndices(s)

\* C1: while a non-match is on show (showing_non_match), handle_card_click
\* with any index, inside the deck or not, returns without raising and
\* leaves the whole session state as it was.
C1_MismatchLock ==
    session_state["showing_non_match"] =>
        \A i \in AnyIndices(session_state) :
            handle_card_click(session_state, i) = Return(session_state)

\* Two non-matching cards are on show and a third card is there to click.
C1_Witness ==
    /\ HasDeck
    /\ session_state["showing_non_match"]
    /\ Len(session_state["selected_cards"]) = 2
    /\ DeckIndices(session_state)
         \ (SelectedIndices(session_state) \cup MatchedIndices(session_state)) # {}

\* C2: showing_non_match is true exactly when the selection holds two cards
\* that do not form a pair.
C2_PendingIffMismatch ==
    session_state["showing_non_match"] <=>
        /\ HasDeck
        /\ Len(session_state["selected_cards"]) = 2
        /\ ~IsPair(KeyCard(session_state, session_state["selected_cards"][1]),
                   KeyCard(session_state, session_state["selected_cards"][2]))

\* C3: the selection holds at most two cards and none of them is matched.
C3_SelectionBuffer ==
    /\ Len(session_state["selected_cards"]) \in {0, 1, 2}
    /\ SelectedIndices(session_state) \cap MatchedIndices(session_state) = {}

\* A card is selected while a pair is matched, and it is not one of the pair.
C3_Witness ==
    /\ HasDeck
    /\ Len(session_state["selected_cards"]) = 1
    /\ Len(session_state["matched_pairs"]) = 2
    /\ SelectedIndices(session_state) \cap MatchedIndices(session_state) = {}
    /\ session_state["attempts"] = 1

\* C4: start_game, from any state, leaves showing_non_match false.
C4_StartGameClearsPending ==
    \A in \in StartInputs :
        ~start_game(session_state, in[1], in[2], in[3], in[4], in[5])["showing_non_match"]

\* C5: start_game, from any state, leaves no matched and no selected card,
\* attempts 0, the start time set to the clock's reading, the game active and
\* a deck made of exactly the cards of the sampled pairs.
C5_StartGameDiscards ==
    \A in \in StartInputs :
        LET s2 == start_game(session_state, in[1], in[2], in[3], in[4], in[5])
            cards == build_cards(in[3])
        IN /\ s2["matched_pairs"] = <<>>
           /\ s2["selected_cards"] = <<>>
           /\ s2["attempts"] = 0
           /\ s2["start_time"] = in[5]
           /\ s2["start_time"] # None
           /\ s2["game_active"]
           /\ s2["difficulty"] = in[2]
           /\ Len(s2["all_cards"]) = 2 * Len(in[3])
           /\ \A k \in 1..Len(cards) : InList(cards[k], s2["all_cards"])

\* A game started while a non-match was on show: the flag is still up over
\* an empty selection, which no other operation leaves behind.
C5_Witness ==
    /\ HasDeck
    /\ session_state["game_active"]
    /\ session_state["showing_non_match"]
    /\ session_state["selected_cards"] = <<>>
    /\ session_state["matched_pairs"] = <<>>
    /\ session_state["attempts"] = 0
    /\ session_state["start_time"] # None

\* C6: a second card that pairs with the selected one puts both keys, in
\* click order, at the end of matched_pairs, empties the selection and
\* leaves showing_non_match false.
C6_MatchMovesBoth ==
    \A i \in DeckIndices(session_state) :
        (/\ SecondCard(session_state, i)
         /\ IsPair(KeyCard(session_state, session_state["selected_cards"][1]),
                   Item(session_state["all_cards"], i)))
        => LET res == handle_card_click(session_state, i)
           IN /\ res.exc = "None"
              /\ res.st["matched_pairs"] =
                     session_state["matched_pairs"]
                         \o <<session_state["selected_cards"][1], KeyOf(session_state, i)>>
              /\ res.st["selected_cards"] = <<>>
              /\ ~res.st["showing_non_match"]

\* A pair has been matched: its two cards are in matched_pairs, the
\* selection is empty and the board is unlocked.
C6_Witness ==
    /\ HasDeck
    /\ Len(session_state["matched_pairs"]) >= 2
    /\ IsPair(KeyCard(session_state, session_state["matched_pairs"][1]),
              KeyCard(session_state, session_state["matched_pairs"][2]))
    /\ session_state["selected_cards"] = <<>>
    /\ ~session_state["showing_non_match"]
    /\ session_state["attempts"] >= 1

\* C7: a second card that does not pair with the selected one leaves the
\* two keys in the selection in click order, sets showing_non_match and
\* leaves matched_pairs as it was.
C7_MismatchKeepsBoth ==
    \A i \in DeckIndices(session_state) :
        (/\ SecondCard(session_state, i)
         /\ ~IsPair(KeyCard(session_state, session_state["selected_cards"][1]),
                    Item(session_state["all_cards"], i)))
        => LET res == handle_card_click(session_state, i)
           IN /\ res.exc = "None"
              /\ res.st["selected_cards"] =
                     <<session_state["selected_cards"][1], KeyOf(session_state, i)>>
              /\ res.st["showing_non_match"]
              /\ res.st["matched_pairs"] = session_state["matched_pairs"]

\* Two cards that do not pair have been selected and are on show.
C7_Witness ==
    /\ HasDeck
    /\ Len(session_state["selected_cards"]) = 2
    /\ ~IsPair(KeyCard(session_state, session_state["selected_cards"][1]),
               KeyCard(session_state, session_state["selected_cards"][2]))
    /\ session_state["showing_non_match"]
    /\ session_state["attempts"] >= 1

\* C8: handle_card_click with the index of a matched or a selected card
\* returns without raising and leaves the whole session state as it was.
C8_TakenCardNoOp ==
    \A i \in DeckIndices(session_state) :
        i \in MatchedIndices(session_state) \cup SelectedIndices(session_state)
        => handle_card_click(session_state, i) = Return(session_state)

\* The board is unlocked with a matched pair and a selected card on it, so
\* that a click on either is ignored by this check and not by the lock.
C8_Witness ==
    /\ HasDeck
    /\ ~session_state["showing_non_match"]
    /\ \E i, j \in DeckIndices(session_state) :
          /\ i \in MatchedIndices(session_state)
          /\ j \in SelectedIndices(session_state)
          /\ handle_card_click(session_state, i) = Return(session_state)
          /\ handle_card_click(session_state, j) = Return(session_state)

\* C9: handle_card_click with an index outside the deck returns without
\* raising and leaves the whole session state as it was.
C9_OutOfRangeNoOp ==
    HasDeck =>
        \A i \in OutOfRange(session_state) :
            handle_card_click(session_state, i) = Return(session_state)

\* C10: the Continue button is on the page only while showing_non_match is
\* true; a click on it empties the selection and clears showing_non_match,
\* leaving deck, matched_pairs and attempts as they were; while
\* showing_non_match is false there is no button and nothing changes.
C10_Continue ==
    LET s2 == continue_button(session_state)
    IN /\ continue_shown(session_state) =>
            /\ session_state["showing_non_match"]
            /\ s2["selected_cards"] = <<>>
            /\ ~s2["showing_non_match"]
            /\ s2["all_cards"] = session_state["all_cards"]
            /\ s2["matched_pairs"] = session_state["matched_pairs"]
            /\ s2["attempts"] = session_state["attempts"]
       /\ ~session_state["showing_non_match"] => s2 = session_state

\* A non-match has been counted and cleared: more attempts than matched
\* pairs, nothing selected and the board unlocked.
C10_Witness ==
    /\ HasDeck
    /\ 2 * session_state["attempts"] > Len(session_state["matched_pairs"])
    /\ session_state["selected_cards"] = <<>>
    /\ ~session_state["showing_non_match"]

\* C11: the game is reported complete exactly when the number of matched
\* cards equals the length of the deck, and never while fewer cards are
\* matched; no more cards are ever matched than the deck holds.
C11_CompleteIffAllMatched ==
    HasDeck =>
        /\ Len(session_state["matched_pairs"])
             <= Len(session_state["all_cards"])
        /\ game_completed(session_state)
             <=> (Len(session_state["matched_pairs"])
                    = Len(session_state["all_cards"]))

\* A game has been played to the end: every card of the deck is matched.
C11_Witness ==
    /\ HasDeck
    /\ session_state["game_active"]
    /\ Len(session_state["all_cards"]) > 0
    /\ Len(session_state["matched_pairs"]) = Len(session_state["all_cards"])
    /\ game_completed(session_state)

\* C14: the list of matched cards always has an even length.
C14_MatchedEven ==
    Len(session_state["matched_pairs"]) % 2 = 0

\* One pair has been matched and the other cards are still on the board.
C14_Witness ==
    /\ HasDeck
    /\ Len(session_state["matched_pairs"]) = 2
    /\ Len(session_state["all_cards"]) > 2
    /\ session_state["selected_cards"] = <<>>

\* What each call does to attempts: a click on a card of the deck adds
\* exactly 1 when it adds the second card to the selection, and leaves
\* attempts alone otherwise; a click with any other index leaves attempts
\* alone or adds 1, and adds 1 only to a selection of one card; Continue
\* leaves attempts alone.
AttemptsPerCall ==
    /\ HasDeck =>
         /\ \A i \in DeckIndices(session_state) :
               handle_card_click(session_state, i).st["attempts"] =
                   session_state["attempts"]
                     + (IF SecondCard(session_state, i) THEN 1 ELSE 0)
         /\ \A i \in OutOfRange(session_state) :
               LET a2 == handle_card_click(session_state, i).st["attempts"]
               IN \/ a2 = session_state["attempts"]
                  \/ /\ a2 = session_state["attempts"] + 1
                     /\ Len(session_state["selected_cards"]) = 1
         /\ continue_button(session_state)["attempts"] =
               session_state["attempts"]
    /\ ~HasDeck => session_state["attempts"] = 0

\* C15: attempts grows by exactly 1 in each click that brings the
\* selection to two cards, matching or not, and is left alone by every
\* other click and by Continue; so attempts is the number of pairs found
\* to match plus the number found not to match in the current game.
C15_Attempts ==
    /\ AttemptsPerCall
    /\ session_state["attempts"] = call.matches + call.mismatches

\* One non-match and then one match have been counted in the same game.
C15_Witness ==
    /\ HasDeck
    /\ call.matches = 1
    /\ call.mismatches = 1
    /\ session_state["attempts"] = 2

\* The cards of a deck that pair with the card at position i.
Partners(deck, i) ==
    {j \in (1..Len(deck)) \ {i} : IsPair(deck[i], deck[j])}

KindCount(deck, kind) ==
    Cardinality({i \in 1..Len(deck) : deck[i][1] = kind})

\* C12: the deck start_game builds from n sampled pairs, whatever the
\* shuffle, has 2n cards, n of kind word and n of kind definition, and
\* every card has exactly one other card pairing with it, of the other
\* kind.
C12_DeckStructure ==
    call.fn = "start_game" =>
        LET deck == session_state["all_cards"]
            n == Len(call.pairs)
        IN /\ n <= Len(all_pairs(call.category))
           /\ Len(deck) = 2 * n
           /\ KindCount(deck, "word") = n
           /\ KindCount(deck, "definition") = n
           /\ \A i \in 1..Len(deck) :
                 /\ Cardinality(Partners(deck, i)) = 1
                 /\ \A j \in Partners(deck, i) : deck[j][1] # deck[i][1]

\* A deck of two pairs has been built and the shuffle moved its cards.
C12_Witness ==
    /\ call.fn = "start_game"
    /\ Len(call.pairs) = 2
    /\ Len(session_state["all_cards"]) = 4
    /\ session_state["all_cards"] # build_cards(call.pairs)

\* C13: get_word_pairs never raises, whether count is below, at or above
\* the number of pairs of the category: it returns min(count, number of
\* pairs) distinct pairs of the category, and start_game builds from them
\* a deck of twice that many cards.
C13_StartGameNeverFails ==
    call.fn \in {"get_word_pairs", "start_game"} =>
        LET avail == all_pairs(call.category)
            n == Min(call.count, Len(avail))
        IN /\ call.exc = "None"
           /\ Len(call.pairs) = n
           /\ \A a \in 1..n : InList(call.pairs[a], avail)
           /\ \A a, b \in 1..n : a # b => call.pairs[a] # call.pairs[b]
           /\ call.fn = "start_game" =>
                 /\ session_state["game_active"]
                 /\ Len(session_state["all_cards"]) = 2 * n

\* A deck has been built for a count above the number of pairs of the
\* category.
C13_Witness ==
    /\ call.fn = "start_game"
    /\ call.count > Len(all_pairs(call.category))
    /\ Len(session_state["all_cards"]) = 2 * Len(all_pairs(call.category))

\* C16: whenever the page computes the efficiency score it raises no
\* error: the score is undefined when attempts is 0, and otherwise it is
\* greater than 0, at most 100, and exactly 100 when attempts equals the
\* number of pairs.
C16_Efficiency ==
    call.fn = "efficiency" =>
        LET res == call.result
        IN /\ res.exc = "None"
           /\ call.attempts = 0 => res.value = None
           /\ call.attempts > 0 =>
                 /\ res.value[1] > 0
                 /\ res.value[1] <= 100 * res.value[2]
                 /\ call.attempts = call.total_pairs =>
                       res.value[1] = 100 * res.value[2]

\* The completion screen of a game finished with one mismatch shows an
\* efficiency score below 100.
C16_Witness ==
    /\ call.fn = "efficiency"
    /\ Complete(session_state)
    /\ call.attempts = call.total_pairs + 1
    /\ call.result.exc = "None"
    /\ call.result.value[1] > 0
    /\ call.result.value[1] < 100 * call.result.value[2]

\* The index of the card of the deck that shows the given text.
CardIndex(s, text) ==
    CHOOSE i \in DeckIndices(s) : Item(s["all_cards"], i)[2] = text

\* The Algorithm card and its definition card are matched, in one attempt,
\* and nothing else has happened.
AlgorithmMatched(s) ==
    /\ MatchedIndices(s) = {CardIndex(s, <<"Algorithm">>),
                            CardIndex(s, <<"A step-by-step procedure">>)}
    /\ Len(s["matched_pairs"]) = 2
    /\ s["selected_cards"] = <<>>
    /\ s["attempts"] = 1
    /\ ~s["showing_non_match"]

\* The state after a click on the Atom card and then on the definition
\* card of Algorithm.
AtomThenProcedure(s) ==
    LET s1 == handle_card_click(s, CardIndex(s, <<"Atom">>)).st
    IN handle_card_click(s1, CardIndex(s, <<"A step-by-step procedure">>)).st

\* C17 as stated: with the Algorithm pair matched in one attempt, a click
\* on the Atom card and then on the matched definition card of Algorithm
\* gives a non-match on show, attempts 2 and both cards in the selection.
C17_ScenarioAsStated ==
    AlgorithmMatched(session_state) =>
        LET s2 == AtomThenProcedure(session_state)
        IN /\ s2["showing_non_match"]
           /\ s2["attempts"] = 2
           /\ s2["selected_cards"] =
                 <<KeyOf(session_state, CardIndex(session_state, <<"Atom">>)),
                   KeyOf(session_state,
                         CardIndex(session_state,
                                   <<"A step-by-step procedure">>))>>

\* C17: with the Algorithm pair matched in one attempt, a click on the Atom
\* card selects it, and the click on the matched definition card of
\* Algorithm that follows is ignored: no non-match is on show, attempts is
\* still 1 and the selection holds the Atom card alone.
C17_Scenario ==
    AlgorithmMatched(session_state) =>
        LET atom == CardIndex(session_state, <<"Atom">>)
            proc == CardIndex(session_state, <<"A step-by-step procedure">>)
            s1 == handle_card_click(session_state, atom).st
            s2 == AtomThenProcedure(session_state)
        IN /\ s1["selected_cards"] = <<KeyOf(session_state, atom)>>
           /\ handle_card_click(s1, proc) = Return(s1)
           /\ s2 = s1
           /\ ~s2["showing_non_match"]
           /\ s2["attempts"] = 1
           /\ s2["matched_pairs"] = session_state["matched_pairs"]

\* The Algorithm pair is matched in one attempt and the Atom card has been
\* selected after it.
C17_Witness ==
    /\ HasDeck
    /\ MatchedIndices(session_state) =
          {CardIndex(session_state, <<"Algorithm">>),
           CardIndex(session_state, <<"A step-by-step procedure">>)}
    /\ session_state["selected_cards"] =
          <<KeyOf(session_state, CardIndex(session_state, <<"Atom">>))>>
    /\ session_state["attempts"] = 1

\* showing_non_match is set and true.
Showing(s) == "showing_non_match" \in DOMAIN s /\ s["showing_non_match"]

\* C18: verify_game_state, on any state, ends with at most two cards
\* selected and with showing_non_match true only over exactly two selected
\* cards: a selection of more than two is emptied and the flag cleared, a
\* flag over a selection of another length than two is cleared, a
\* selection of at most two is kept, and nothing else (deck, matches,
\* attempts, the other attributes) changes.
C18_Repair ==
    call.fn = "verify_game_state" =>
        LET b == call.before
            a == session_state
            rest == {"selected_cards", "showing_non_match"}
        IN /\ Len(a["selected_cards"]) <= 2
           /\ Showing(a) => Len(a["selected_cards"]) = 2
           /\ Len(b["selected_cards"]) > 2 =>
                 /\ a["selected_cards"] = <<>>
                 /\ "showing_non_match" \in DOMAIN a
                 /\ ~a["showing_non_match"]
           /\ Len(b["selected_cards"]) <= 2 =>
                 /\ a["selected_cards"] = b["selected_cards"]
                 /\ DOMAIN a = DOMAIN b
           /\ Showing(b) /\ Len(b["selected_cards"]) # 2 => ~Showing(a)
           /\ Len(b["selected_cards"]) = 2 => (Showing(a) <=> Showing(b))
           /\ DOMAIN a \ rest = DOMAIN b \ rest
           /\ \A k \in DOMAIN b \ rest : a[k] = b[k]

\* The repair has emptied a selection of three cards under a raised flag,
\* leaving the matched pair and the attempts as they were.
C18_Witness ==
    /\ call.fn = "verify_game_state"
    /\ Len(call.before["selected_cards"]) = 3
    /\ Showing(call.before)
    /\ call.before["matched_pairs"] # <<>>
    /\ session_state["selected_cards"] = <<>>
    /\ ~session_state["showing_non_match"]
    /\ session_state["matched_pairs"] = call.before["matched_pairs"]

\* C19: in every state reached through start_game, handle_card_click
\* and Continue alone, verify_game_state changes nothing.
C19_RepairNeverNeeded ==
    verify_game_state(session_state) = session_state

\* The handlers of a cycle that change the game.
Handlers == {"handle_card_click", "start_game", "continue_button"}

\* In the cycle recorded, verify_game_state ran before position k.
VerifiedBefore(k) ==
    \E j \in 1..(k - 1) : call.trace[j] = "verify_game_state"

\* C20 as stated: every handle_card_click, start_game and Continue
\* handling is preceded, within its cycle, by a run of verify_game_state.
C20_RepairBeforeEachHandler ==
    \A k \in 1..Len(call.trace) :
        call.trace[k] \in Handlers => VerifiedBefore(k)

\* C20: verify_game_state runs in every cycle; start_game and the Continue
\* handling are preceded by it within their cycle; handle_card_click runs
\* first in its cycle, before verify_game_state and not after it; and each
\* of the three acts on a state that verify_game_state leaves as it is.
C20_RepairInEachCycle ==
    /\ \E k \in 1..Len(call.trace) : call.trace[k] = "verify_game_state"
    /\ \A k \in 1..Len(call.trace) :
         /\ call.trace[k] \in {"start_game", "continue_button"} =>
               VerifiedBefore(k)
         /\ call.trace[k] = "handle_card_click" =>
               /\ k = 1
               /\ call.trace[2] = "verify_game_state"
    /\ call.repaired

\* A card click, the first of its game, has been handled by the callback
\* and the script has run after it.
C20_Witness ==
    /\ call.trace[1] = "handle_card_click"
    /\ HasDeck
    /\ Len(session_state["selected_cards"]) = 1
    /\ session_state["attempts"] = 0
    /\ call.repaired

\* The states start_game can give from s.
StartOutcomes(s) ==
    {start_game(s, in[1], in[2], in[3], in[4], in[5]) : in \in StartInputs}

\* In a complete game nothing is selected, no non-match is on show, and a
\* click on any card of the deck, Continue and the repair change nothing.
CompleteIsQuiet ==
    Complete(session_state) =>
        /\ session_state["selected_cards"] = <<>>
        /\ ~session_state["showing_non_match"]
        /\ \A i \in DeckIndices(session_state) :
              handle_card_click(session_state, i) = Return(session_state)
        /\ continue_button(session_state) = session_state
        /\ ~continue_shown(session_state)
        /\ verify_game_state(session_state) = session_state

\* A step that changes a complete game is a step of start_game, and the
\* game it gives is not complete.
CompleteLeftByStartOnly ==
    (Complete(session_state) /\ session_state' # session_state) =>
        /\ session_state' \in StartOutcomes(session_state)
        /\ ~Complete(session_state')

\* C21: once the game is complete it stays complete until start_game: a
\* click on any card of the deck and Continue change nothing, nothing is
\* selected, no non-match is on show, and only start_game leaves the state.
C21_CompleteUntilStart ==
    /\ []CompleteIsQuiet
    /\ [][CompleteLeftByStartOnly]_vars

\* A game has been completed in as many attempts as it has pairs.
C21_Witness ==
    /\ Complete(session_state)
    /\ session_state["attempts"] * 2 = Len(session_state["all_cards"])
    /\ session_state["selected_cards"] = <<>>

\* a is the beginning of b.
IsPrefix(a, b) == Len(a) <= Len(b) /\ SubSeq(b, 1, Len(a)) = a

\* From state a to state b the deck is kept, the matches only grow and
\* attempts does not go down.
AppendOnly(a, b) ==
    /\ b["all_cards"] = a["all_cards"]
    /\ IsPrefix(a["matched_pairs"], b["matched_pairs"])
    /\ b["attempts"] >= a["attempts"]

\* Every click, with an index of the deck or not, raising or not, and
\* Continue keep the deck, the matches and the attempts of the state.
CallsAppendOnly ==
    /\ \A i \in AnyIndices(session_state) :
          AppendOnly(session_state, handle_card_click(session_state, i).st)
    /\ AppendOnly(session_state, continue_button(session_state))

\* C22: between two game starts, across clicks and Continue in any order,
\* the deck never changes, the list of matches never loses a card and
\* attempts never goes down.
C22_AppendOnly ==
    /\ []CallsAppendOnly
    /\ [][AppendOnly(session_state, session_state')]_vars

\* A non-match and then a match have been played in one game.
C22_Witness ==
    /\ HasDeck
    /\ Len(session_state["matched_pairs"]) = 2
    /\ session_state["attempts"] = 2
    /\ session_state["selected_cards"] = <<>>
    /\ ~session_state["showing_non_match"]

\* The frame lacks the word column or the definition column.
LacksRequired(df) == "word" \notin df.columns \/ "definition" \notin df.columns

\* C23: an upload whose frame lacks the word or the definition column
\* shows the error naming the missing columns and does nothing else: the
\* category table is as it was and the session state is untouched; and
\* load_custom_word_pairs on such a frame raises and returns nothing.
C23_MissingColumns ==
    /\ (call.fn = "upload_csv" /\ LacksRequired(call.df)) =>
          /\ call.result.level = "error"
          /\ call.result.text = "CSV is missing required columns"
          /\ call.result.cols =
                SelectSeq(<<"word", "definition">>,
                          LAMBDA col : col \notin call.df.columns)
          /\ call.result.word_sets = WORD_SETS
          /\ session_state = initial_session_state
    /\ (call.fn = "load_custom_word_pairs" /\ LacksRequired(call.df)) =>
          /\ call.result.exc = "Exception"
          /\ call.result.value = None
          /\ session_state = initial_session_state

\* A file with the word and category columns, without the definition
\* column and with rows, has been uploaded and refused.
C23_Witness ==
    /\ call.fn = "upload_csv"
    /\ call.df.columns = {"word", "category"}
    /\ Len(call.df.rows) = MaxRows
    /\ call.result.level = "error"
    /\ call.result.cols = <<"definition">>

\* C24: start_game asks for 4 pairs for Easy, 6 for Medium, 8 for Hard,
\* and for the 4 pairs of Easy for any other difficulty name, without
\* failing; so do both revisions.
C24_PairCount ==
    call.fn = "pair_count" =>
        /\ call.count = (IF call.difficulty = "Medium" THEN 6
                         ELSE IF call.difficulty = "Hard" THEN 8
                         ELSE 4)
        /\ call.template_count = call.count

\* The count has been asked for a name that is not in the table.
C24_Witness ==
    /\ call.fn = "pair_count"
    /\ call.difficulty \notin {"Easy", "Medium", "Hard"}
    /\ call.count = 4

\* C25: in the timed revision the check of the non-match time clears the
\* selection only when it holds two cards found not to match more than two
\* seconds before; it never clears a single selected card, nor a pair
\* revealed two seconds ago or less.
C25_TimedClear ==
    (call.fn = "timed" /\ call.cleared.fired) =>
        /\ call.cleared.cards = 2
        /\ call.cleared.mismatch
        /\ call.cleared.age # <<>>
        /\ call.cleared.age[1] > TimerDelay

\* C26: for non-negative whole inputs with total_pairs >= 1 and
\* pairs_found <= total_pairs, calculate_score returns a whole number from
\* 0 to 100, and it returns exactly 100 when every pair was found in
\* total_pairs attempts and in at most 5 * total_pairs seconds.
C26_ScoreRange ==
    (call.fn = "calculate_score" /\ call.total_pairs >= 1) =>
        /\ call.exc = "None"
        /\ call.value \in 0..100
        /\ ( /\ call.pairs_found = call.total_pairs
             /\ call.attempts = call.total_pairs
             /\ call.time_seconds <= 5 * call.total_pairs )
           => call.value = 100

\* A perfect game finished before the target time, whose unclamped sum is
\* above 100, has been scored.
C26_Witness ==
    /\ call.fn = "calculate_score"
    /\ call.total_pairs >= 1
    /\ call.pairs_found = call.total_pairs
    /\ call.attempts = call.total_pairs
    /\ call.time_seconds < 5 * call.total_pairs
    /\ call.value = 100

\* C27: in every reachable state attempts is at least half the number of
\* matched cards; so when the completion screen computes the efficiency
\* score, attempts >= total_pairs >= 1, the division by attempts does not
\* divide by zero and the score is at most 100.
C27_AttemptsCoverMatches ==
    HasDeck =>
        LET total_pairs == Len(session_state["all_cards"]) \div 2
            attempts == session_state["attempts"]
            score == efficiency(total_pairs, attempts)
        IN /\ 2 * attempts >= Len(session_state["matched_pairs"])
           /\ Complete(session_state) =>
                /\ attempts >= total_pairs
                /\ total_pairs >= 1
                /\ score.exc = "None"
                /\ score.value[1] <= 100 * score.value[2]

\* A game has been completed, after at least one attempt for each of its
\* pairs, and the efficiency score computed on its completion screen is
\* the whole 100.
C27_Witness ==
    /\ Complete(session_state)
    /\ session_state["attempts"] >= 1
    /\ 2 * session_state["attempts"] >= Len(session_state["matched_pairs"])
    /\ LET score == efficiency(Len(session_state["all_cards"]) \div 2,
                               session_state["attempts"])
       IN /\ score.exc = "None"
          /\ score.value[1] = 100 * score.value[2]

\* C28: whenever a game is active its deck is not empty (total_pairs >= 1),
\* whichever category of the table of the run it was started on and
\* whatever an upload stored before, so the completion percentage of the
\* game stats never divides by zero.
C28_DeckNonEmpty ==
    (HasDeck /\ session_state["game_active"]) =>
        /\ Len(session_state["all_cards"]) \div 2 >= 1
        /\ completion(session_state).exc = "None"

\* A game was started in the run after an upload that stored a category
\* without items.
C28_Witness ==
    /\ call.fn = "start_game"
    /\ call.exc = "None"
    /\ call.rows = 0
    /\ "Custom Words" \in call.stored
    /\ session_state["game_active"]
    /\ Len(session_state["all_cards"]) \div 2 >= 1

\* C29: in every reachable state an active game has a deck and a start
\* time that is not None, so the elapsed time of the completion screen is
\* never computed from an unset start time, however start_game, reset_game,
\* the card clicks and Continue are interleaved.
C29_ActiveHasDeckAndStart ==
    (session_state["game_active"]) =>
        /\ HasDeck
        /\ session_state["start_time"] # None
        /\ \A now \in Times : elapsed(session_state, now).exc = "None"

\* A game started after a reset_game has been played to its completion
\* screen, where the elapsed time is computed.
C29_Witness ==
    /\ call.fn = "reset_game"
    /\ Complete(session_state)
    /\ session_state["start_time"] \in Times
    /\ \A now \in Times : elapsed(session_state, now).value = 0

\* The cards at deck indices i and j are the two cards made from one tuple.
SameTuple(i, j) == i # j /\ call.origin[i + 1] = call.origin[j + 1]

\* C30: two selected cards are judged a match if and only if they are the
\* word card and the definition card made from the same (word, definition)
\* tuple, in every deck start_game can build, also where two words share a
\* definition text or a word's text is another pair's definition text, and
\* whichever of the two was clicked first.  Cards judged a match are stored
\* two by two in matched_pairs; cards judged not to match stay selected
\* under showing_non_match.
C30_MatchIffSameTuple ==
    (call.fn = "deck") =>
        /\ \A k \in 1..(Len(session_state["matched_pairs"]) \div 2) :
             SameTuple(KeyIndex(session_state["matched_pairs"][2 * k - 1]),
                       KeyIndex(session_state["matched_pairs"][2 * k]))
        /\ ( /\ Len(session_state["selected_cards"]) = 2
             /\ session_state["showing_non_match"] )
           => ~SameTuple(KeyIndex(session_state["selected_cards"][1]),
                         KeyIndex(session_state["selected_cards"][2]))

\* A word card and the definition card of another word, the two words
\* sharing the definition text, have been judged not to match, the
\* definition card clicked second.
C30_Witness ==
    /\ call.fn = "deck"
    /\ Len(session_state["selected_cards"]) = 2
    /\ session_state["showing_non_match"]
    /\ LET card1 == KeyCard(session_state, session_state["selected_cards"][1])
           card2 == KeyCard(session_state, session_state["selected_cards"][2])
       IN /\ card1[1] = "word"
          /\ card2[1] = "definition"
          /\ card1[3] = card2[2]
          /\ card1[2] # card2[3]

\* C31: in every reachable state the matched set is closed under
\* partnership: a card is matched if and only if the one other card made
\* from its tuple is matched; the matched cards are cards of the deck, each
\* stored once, so the progress count is at most total_pairs.
C31_MatchedClosed ==
    (call.fn = "deck") =>
        LET s == session_state
            indices == DeckIndices(s)
        IN /\ MatchedIndices(s) \subseteq indices
           /\ \A i \in indices :
                /\ Cardinality({j \in indices : SameTuple(i, j)}) = 1
                /\ \A j \in indices :
                     SameTuple(i, j) =>
                         (i \in MatchedIndices(s) <=> j \in MatchedIndices(s))
           /\ Cardinality(MatchedIndices(s)) = Len(s["matched_pairs"])
           /\ Len(s["matched_pairs"]) \div 2 <= Len(s["all_cards"]) \div 2

\* One pair of a deck of two pairs is matched and the other is not.
C31_Witness ==
    /\ call.fn = "deck"
    /\ Len(session_state["all_cards"]) = 4
    /\ Cardinality(MatchedIndices(session_state)) = 2
    /\ \E i, j \in MatchedIndices(session_state) : SameTuple(i, j)

\* C32: no stuck state: on every page of an active game that is not
\* complete, as the end of an interaction cycle leaves it (the cycle of a
\* Start New Game clicked over a pending mismatch included), some card
\* button is enabled and its click changes the state, or the Continue
\* button is shown.
C32_NoStuckPage ==
    ( /\ call.fn = "cycle"
      /\ HasDeck
      /\ session_state["game_active"]
      /\ ~game_completed(session_state) )
    => \/ \E i \in DeckIndices(session_state) :
            /\ card_enabled(session_state, i)
            /\ handle_card_click(session_state, i).exc = "None"
            /\ handle_card_click(session_state, i).st # session_state
       \/ continue_shown(session_state)

\* The key handle_card_click stored last: the last of the selection, or of
\* the matches when the selection was emptied by a match.
LastKey(s) ==
    IF s["selected_cards"] # <<>>
    THEN s["selected_cards"][Len(s["selected_cards"])]
    ELSE s["matched_pairs"][Len(s["matched_pairs"])]

\* C33: the keys "{index}:{text}" name deck positions one to one: in every
\* reachable state each deck index occurs at most once over the matched
\* list and the selection together, and the index read back from a stored
\* key, split at its first colon, is the index that was clicked and the
\* rest is the text of that card, also for texts that hold colons.
C33_KeysOneToOne ==
    LET s == session_state
        keys == s["matched_pairs"] \o s["selected_cards"]
    IN (call.fn \in {"deck", "click", "continue"}) =>
        /\ \A a, b \in 1..Len(keys) :
             a # b => KeyIndex(keys[a]) # KeyIndex(keys[b])
        /\ \A a \in 1..Len(keys) :
             /\ KeyIndex(keys[a]) \in DeckIndices(s)
             /\ SplitColon(keys[a])[2] = KeyCard(s, keys[a])[2]
        /\ (call.fn = "click" /\ call.stored) =>
             KeyIndex(LastKey(s)) = call.card_index

\* A card whose text holds a colon has been clicked and its key stored.
C33_Witness ==
    /\ call.fn = "click"
    /\ call.stored
    /\ InList(":", Item(session_state["all_cards"], call.card_index)[2])
    /\ KeyIndex(LastKey(session_state)) = call.card_index

\* C34: the category passed to start_game is always a key of the category
\* table: whatever option of the selectbox the player picks, the category
\* of the run is a key of the table of the run, one of the keys the
\* sidebar read, and never the separator "---".
C34_CategoryIsKey ==
    (call.fn = "select") =>
        /\ call.known
        /\ InList(call.category, call.keys)
        /\ call.category # "---"

\* An option was picked in the run after an upload that stored a custom
\* category.
C34_Witness ==
    /\ call.fn = "select"
    /\ \E key \in call.stored : startswith(key, "Custom")
    /\ call.category = call.category_option
    /\ call.known

\* C35: in definition_match/app.py an upload never adds, removes or
\* changes a built-in category (Technology, Science, Literature): every
\* uploaded category is stored only under a key that begins with "Custom",
\* whatever category names the file holds.
C35_BuiltInsUntouched ==
    (call.fn = "upload_csv") =>
        LET word_sets == call.result.word_sets
        IN /\ DOMAIN WORD_SETS \subseteq DOMAIN word_sets
           /\ \A key \in DOMAIN WORD_SETS : word_sets[key] = WORD_SETS[key]
           /\ \A key \in DOMAIN word_sets \ DOMAIN WORD_SETS :
                startswith(key, "Custom")
           /\ built_in_categories(WORD_SETS_keys) = WORD_SETS_keys

\* A file with a category named as the built-in category Science has been
\* loaded: its words are under "Custom: Science".
C35_Witness ==
    /\ call.fn = "upload_csv"
    /\ call.result.level = "success"
    /\ \E k \in 1..Len(call.df.rows) :
         /\ "category" \in call.df.columns
         /\ call.df.rows[k]["category"] = <<"Science">>
    /\ "Custom: Science" \in DOMAIN call.result.word_sets
    /\ call.result.word_sets["Science"] = WORD_SETS["Science"]

\* C36: in the timed revision, which has no lock, selected_cards holds at
\* most two entries in every reachable state, and every second click of a
\* card ends in a match evaluation that increments attempts.  The
\* evaluation is made only by the click that brings the selection to two
\* cards, so the second part rests on the first, which is the formula.
C36_TimedSelectionAtMostTwo ==
    (call.fn = "timed" /\ "selected_cards" \in DOMAIN session_state) =>
        Len(session_state["selected_cards"]) <= 2

\* C37: split_words_into_categories partitions its input: for any word
\* dict and any list of distinct category names that is not empty, the
\* keys of the result are the given categories and every word of the input
\* is in exactly one category, once, with its own definition, and nothing
\* else is, also with fewer words than categories and with a word count
\* that is not a multiple of the category count.
C37_SplitPartitions ==
    (call.fn = "split_words_into_categories" /\ call.categories # <<>>) =>
        LET result == call.result
            places(word) ==
                {<<cat, k>> \in (DOMAIN result) \X (1..(MaxSplitWords + 1)) :
                    k <= Len(result[cat]) /\ result[cat][k][1] = word}
        IN /\ DOMAIN result =
                {call.categories[k] : k \in 1..Len(call.categories)}
           /\ \A j \in 1..Len(call.word_dict) :
                /\ Cardinality(places(call.word_dict[j][1])) = 1
                /\ \A pl \in places(call.word_dict[j][1]) :
                     result[pl[1]][pl[2]] = call.word_dict[j]
           /\ \A cat \in DOMAIN result :
                /\ Len(result[cat]) <= Len(call.word_dict)
                /\ \A k \in 1..Len(result[cat]) :
                     InList(result[cat][k], call.word_dict)

\* Three words were split over two categories: the last one holds two.
C37_Witness ==
    /\ call.fn = "split_words_into_categories"
    /\ Len(call.word_dict) = 3
    /\ Len(call.categories) = 2
    /\ Len(call.result[call.categories[1]]) = 1
    /\ Len(call.result[call.categories[2]]) = 2

====
